---------------------------- MODULE Spec2Model ----------------------------
(***************************************************************************)
(* Model of safetensors-inspector: the header reader (readHeaderSize,      *)
(* parseHeader), the zod header schema, the analysis orchestrator          *)
(* (analyzeSafetensors) and the page's file handler (handleFile).          *)
(*                                                                         *)
(* JavaScript values are tagged records:                                   *)
(*   [t |-> "undefined"], [t |-> "null"], [t |-> "bool", b |-> ...],       *)
(*   [t |-> "num", n |-> ...], [t |-> "str", s |-> ...],                   *)
(*   [t |-> "arr", a |-> <<values>>],                                      *)
(*   [t |-> "obj", o |-> <<[k |-> key, v |-> value], ...>>]                *)
(* An object keeps its entries in insertion order, as Object.entries does  *)
(* for non-index keys.  Strings are TLA+ strings; a character is a string  *)
(* of length 1.  An ArrayBuffer is a sequence of bytes (0..255).           *)
(***************************************************************************)
EXTENDS Integers, Sequences, FiniteSets, TLC

VARIABLES
  arg,          \* the argument handed to the function under check
  call,         \* the function applied last ("init" before any call)
  ret,          \* what that call returned or threw
  isProcessing, \* MainPage signal
  analysis,     \* MainPage signal
  error,        \* MainPage signal
  fileName,     \* MainPage signal
  tasks,        \* in-flight handleFile invocations
  analyzed,     \* the header data handed to analyzeSafetensors so far
  currentPage,  \* SafetensorsAnalysisDisplay signal
  showAllTensors \* SafetensorsAnalysisDisplay signal

vars ==
  <<arg, call, ret, isProcessing, analysis, error, fileName, tasks, analyzed,
    currentPage, showAllTensors>>

tableVars == <<currentPage, showAllTensors>>

pageVars == <<isProcessing, analysis, error, fileName, tasks, analyzed, tableVars>>

pureVars == <<arg, call, ret>>

-----------------------------------------------------------------------------
(* const x = v; F(x): the value v is computed once and F applied to it *)

With(v, F(_)) == CHOOSE y \in {F(x) : x \in {v}} : TRUE

-----------------------------------------------------------------------------
(* Strings *)

Ch(s, i) == SubSeq(s, i, i)

StartsWith(s, p) == Len(p) <= Len(s) /\ SubSeq(s, 1, Len(p)) = p

Includes(s, p) ==
  \E i \in 1..(Len(s) - Len(p) + 1) : SubSeq(s, i, i + Len(p) - 1) = p

Digits == "0123456789"

IsDigit(c) == \E i \in 1..10 : Ch(Digits, i) = c

DigitVal(c) == (CHOOSE i \in 1..10 : Ch(Digits, i) = c) - 1

RECURSIVE NatToStr(_)
NatToStr(n) ==
  IF n < 10 THEN Ch(Digits, n + 1)
  ELSE NatToStr(n \div 10) \o Ch(Digits, (n % 10) + 1)

\* String(n) for an integer n
NumToStr(n) == IF n < 0 THEN "-" \o NatToStr(0 - n) ELSE NatToStr(n)

-----------------------------------------------------------------------------
(* JavaScript values *)

UNDEFINED == [t |-> "undefined"]
JNull == [t |-> "null"]
JBool(b) == [t |-> "bool", b |-> b]
JNum(n) == [t |-> "num", n |-> n]
JStr(s) == [t |-> "str", s |-> s]
JArr(a) == [t |-> "arr", a |-> a]
JObj(o) == [t |-> "obj", o |-> o]

Entry(k, v) == [k |-> k, v |-> v]

\* key in obj
HasKey(obj, k) == \E i \in 1..Len(obj.o) : obj.o[i].k = k

\* obj[k]: undefined when the key is absent
Get(obj, k) ==
  IF HasKey(obj, k)
  THEN obj.o[CHOOSE i \in 1..Len(obj.o) : obj.o[i].k = k].v
  ELSE UNDEFINED

\* obj[k] = v: an existing key keeps its place, a new key goes last
Put(obj, k, v) ==
  IF HasKey(obj, k)
  THEN JObj([i \in 1..Len(obj.o) |->
              IF obj.o[i].k = k THEN Entry(k, v) ELSE obj.o[i]])
  ELSE JObj(Append(obj.o, Entry(k, v)))

\* JavaScript truthiness
Truthy(v) ==
  CASE v.t \in {"undefined", "null"} -> FALSE
    [] v.t = "bool" -> v.b
    [] v.t = "num" -> v.n # 0
    [] v.t = "str" -> v.s # ""
    [] OTHER -> TRUE

\* typeof v === "object"
TypeofObject(v) == v.t \in {"null", "arr", "obj"}

\* structural equality up to key order (vitest toEqual on plain data)
RECURSIVE DeepEqual(_, _)
DeepEqual(x, y) ==
  IF x.t # y.t THEN FALSE
  ELSE IF x.t = "arr"
    THEN Len(x.a) = Len(y.a)
         /\ \A i \in 1..Len(x.a) : DeepEqual(x.a[i], y.a[i])
  ELSE IF x.t = "obj"
    THEN Len(x.o) = Len(y.o)
         /\ \A i \in 1..Len(x.o) :
              HasKey(y, x.o[i].k) /\ DeepEqual(x.o[i].v, Get(y, x.o[i].k))
  ELSE x = y

-----------------------------------------------------------------------------
(* UTF-8 text: TextEncoder / TextDecoder on printable ASCII *)

\* codes 32..95 and 97..126 (code 96 cannot be written in a TLA+ string)
AsciiLow ==
  " !\"#$%&'()*+,-./0123456789:;<=>?@ABCDEFGHIJKLMNOPQRSTUVWXYZ[\\]^_"

AsciiHigh == "abcdefghijklmnopqrstuvwxyz{|}~"

CharCode(c) ==
  IF \E i \in 1..Len(AsciiLow) : Ch(AsciiLow, i) = c
  THEN 31 + (CHOOSE i \in 1..Len(AsciiLow) : Ch(AsciiLow, i) = c)
  ELSE 96 + (CHOOSE i \in 1..Len(AsciiHigh) : Ch(AsciiHigh, i) = c)

CodeChar(b) ==
  IF b < 97 THEN Ch(AsciiLow, b - 31) ELSE Ch(AsciiHigh, b - 96)

\* new TextEncoder().encode(s)
TextEncode(s) == [i \in 1..Len(s) |-> CharCode(Ch(s, i))]

\* the characters of bytes lo..hi (halved, to keep the evaluation shallow)
RECURSIVE DecodeRange(_, _, _)
DecodeRange(bytes, lo, hi) ==
  IF lo > hi THEN ""
  ELSE IF lo = hi THEN CodeChar(bytes[lo])
  ELSE DecodeRange(bytes, lo, (lo + hi) \div 2)
       \o DecodeRange(bytes, (lo + hi) \div 2 + 1, hi)

\* new TextDecoder().decode(bytes)
TextDecode(bytes) == DecodeRange(bytes, 1, Len(bytes))

-----------------------------------------------------------------------------
(* JSON.stringify *)

QUOTE == "\""
BACKSLASH == "\\"

\* the first position from j on that holds a quote or a backslash
\* (Len(s) + 1 when there is none)
NextSpecial(s, j) ==
  LET ks == {k \in j..Len(s) : Ch(s, k) \in {QUOTE, BACKSLASH}}
  IN  IF ks = {} THEN Len(s) + 1
      ELSE CHOOSE k \in ks : \A m \in ks : k <= m

\* s from position i on, each quote and backslash escaped
RECURSIVE EscapeFrom(_, _)
EscapeFrom(s, i) ==
  LET q == NextSpecial(s, i)
  IN  IF q > Len(s) THEN SubSeq(s, i, Len(s))
      ELSE SubSeq(s, i, q - 1) \o BACKSLASH \o Ch(s, q)
           \o EscapeFrom(s, q + 1)

Quote(s) == QUOTE \o EscapeFrom(s, 1) \o QUOTE

RECURSIVE JSONstringify(_)
RECURSIVE StringifyElems(_, _)
RECURSIVE StringifyMembers(_, _, _)

\* elements i.. of an array, comma-separated; undefined is written as null
StringifyElems(a, i) ==
  IF i > Len(a) THEN ""
  ELSE (IF i > 1 THEN "," ELSE "")
       \o (IF a[i].t = "undefined" THEN "null" ELSE JSONstringify(a[i]))
       \o StringifyElems(a, i + 1)

\* members i.. of an object; a member whose value is undefined is left out
StringifyMembers(o, i, first) ==
  IF i > Len(o) THEN ""
  ELSE IF o[i].v.t = "undefined" THEN StringifyMembers(o, i + 1, first)
  ELSE (IF first THEN "" ELSE ",")
       \o Quote(o[i].k) \o ":" \o JSONstringify(o[i].v)
       \o StringifyMembers(o, i + 1, FALSE)

JSONstringify(v) ==
  CASE v.t = "null" -> "null"
    [] v.t = "bool" -> (IF v.b THEN "true" ELSE "false")
    [] v.t = "num" -> NumToStr(v.n)
    [] v.t = "str" -> Quote(v.s)
    [] v.t = "arr" -> "[" \o StringifyElems(v.a, 1) \o "]"
    [] v.t = "obj" -> "{" \o StringifyMembers(v.o, 1, TRUE) \o "}"

-----------------------------------------------------------------------------
(* JSON.parse: integers, strings (escapes \" \\ \/), literals, arrays,     *)
(* objects, blanks between tokens.                                         *)

RECURSIVE SkipWs(_, _)
SkipWs(s, i) == IF i <= Len(s) /\ Ch(s, i) = " " THEN SkipWs(s, i + 1) ELSE i

SyntaxError(s, i) ==
  [ok |-> FALSE, i |-> i, v |-> UNDEFINED,
   message |-> IF i > Len(s) THEN "Unexpected end of JSON input"
               ELSE "Unexpected token " \o Ch(s, i)
                    \o " in JSON at position " \o NumToStr(i - 1)]

Parsed(v, i) == [ok |-> TRUE, i |-> i, v |-> v, message |-> ""]

LiteralAt(s, i, lit) ==
  i + Len(lit) - 1 <= Len(s) /\ SubSeq(s, i, i + Len(lit) - 1) = lit

\* the characters of a string literal from position j, the opening quote read
RECURSIVE ScanString(_, _, _)
ScanString(s, j, acc) ==
  With(NextSpecial(s, j), LAMBDA q :
    IF q > Len(s) THEN SyntaxError(s, q)
    ELSE IF Ch(s, q) = QUOTE THEN Parsed(acc \o SubSeq(s, j, q - 1), q + 1)
    ELSE IF q + 1 <= Len(s) /\ Ch(s, q + 1) \in {QUOTE, BACKSLASH, "/"}
      THEN ScanString(s, q + 2, acc \o SubSeq(s, j, q - 1) \o Ch(s, q + 1))
    ELSE SyntaxError(s, q + 1))

RECURSIVE ScanDigits(_, _, _)
ScanDigits(s, j, acc) ==
  IF j <= Len(s) /\ IsDigit(Ch(s, j))
  THEN ScanDigits(s, j + 1, acc * 10 + DigitVal(Ch(s, j)))
  ELSE Parsed(acc, j)

\* -? ( 0 | [1-9][0-9]* )
ParseNumber(s, i) ==
  With(IF Ch(s, i) = "-" THEN i + 1 ELSE i, LAMBDA j :
    IF j > Len(s) \/ ~IsDigit(Ch(s, j)) THEN SyntaxError(s, j)
    ELSE With(IF Ch(s, j) = "0" THEN Parsed(0, j + 1) ELSE ScanDigits(s, j, 0),
              LAMBDA r : Parsed(JNum(IF j > i THEN 0 - r.v ELSE r.v), r.i)))

RECURSIVE ParseValue(_, _)
RECURSIVE ParseElems(_, _, _)
RECURSIVE ParseMembers(_, _, _)

\* array elements from position j (blanks skipped), the "[" read
ParseElems(s, j, acc) ==
  With(ParseValue(s, j), LAMBDA r :
    IF ~r.ok THEN r
    ELSE With(SkipWs(s, r.i), LAMBDA k :
      IF k <= Len(s) /\ Ch(s, k) = ","
      THEN ParseElems(s, SkipWs(s, k + 1), Append(acc, r.v))
      ELSE IF k <= Len(s) /\ Ch(s, k) = "]"
      THEN Parsed(JArr(Append(acc, r.v)), k + 1)
      ELSE SyntaxError(s, k)))

\* the value of a member and what follows it, the key and the ":" read
MemberValue(s, j, acc, key) ==
  With(ParseValue(s, j), LAMBDA r :
    IF ~r.ok THEN r
    ELSE With(SkipWs(s, r.i), LAMBDA k :
      IF k <= Len(s) /\ Ch(s, k) = ","
      THEN ParseMembers(s, SkipWs(s, k + 1), Put(acc, key, r.v))
      ELSE IF k <= Len(s) /\ Ch(s, k) = "}"
      THEN Parsed(Put(acc, key, r.v), k + 1)
      ELSE SyntaxError(s, k)))

\* object members from position j (blanks skipped), the "{" read;
\* a repeated key keeps its first place and takes the last value
ParseMembers(s, j, acc) ==
  IF j > Len(s) \/ Ch(s, j) # QUOTE THEN SyntaxError(s, j)
  ELSE With(ScanString(s, j + 1, ""), LAMBDA key :
    IF ~key.ok THEN key
    ELSE With(SkipWs(s, key.i), LAMBDA c :
      IF c > Len(s) \/ Ch(s, c) # ":" THEN SyntaxError(s, c)
      ELSE MemberValue(s, SkipWs(s, c + 1), acc, key.v)))

\* a string literal as a value
StringValue(r) == IF r.ok THEN Parsed(JStr(r.v), r.i) ELSE r

ParseValue(s, i) ==
  IF i > Len(s) THEN SyntaxError(s, i)
  ELSE IF Ch(s, i) = "{"
    THEN With(SkipWs(s, i + 1), LAMBDA j :
           IF j <= Len(s) /\ Ch(s, j) = "}" THEN Parsed(JObj(<<>>), j + 1)
           ELSE ParseMembers(s, j, JObj(<<>>)))
  ELSE IF Ch(s, i) = "["
    THEN With(SkipWs(s, i + 1), LAMBDA j :
           IF j <= Len(s) /\ Ch(s, j) = "]" THEN Parsed(JArr(<<>>), j + 1)
           ELSE ParseElems(s, j, <<>>))
  ELSE IF Ch(s, i) = QUOTE THEN With(ScanString(s, i + 1, ""), StringValue)
  ELSE IF Ch(s, i) = "-" \/ IsDigit(Ch(s, i)) THEN ParseNumber(s, i)
  ELSE IF LiteralAt(s, i, "true") THEN Parsed(JBool(TRUE), i + 4)
  ELSE IF LiteralAt(s, i, "false") THEN Parsed(JBool(FALSE), i + 5)
  ELSE IF LiteralAt(s, i, "null") THEN Parsed(JNull, i + 4)
  ELSE SyntaxError(s, i)

\* the outcome of JSON.parse
JsonFailed(message) == [ok |-> FALSE, v |-> UNDEFINED, message |-> message]

JsonParsed(v) == [ok |-> TRUE, v |-> v, message |-> ""]

\* JSON.parse(s): the value, or the message of the SyntaxError
JSONparse(s) ==
  With(ParseValue(s, SkipWs(s, 1)), LAMBDA r :
    IF ~r.ok THEN JsonFailed(r.message)
    ELSE With(SkipWs(s, r.i), LAMBDA e :
      IF e <= Len(s) THEN JsonFailed(SyntaxError(s, e).message)
      ELSE JsonParsed(r.v)))

-----------------------------------------------------------------------------
(* The zod schemas.  A schema applied to a value gives                     *)
(*   [success |-> BOOLEAN, data |-> the parsed output, issues |-> paths]   *)
(* where issues is the set of paths (sequences of keys) zod reports.       *)

ZodOk(v) == [success |-> TRUE, data |-> v, issues |-> {}]

ZodFail(paths) == [success |-> FALSE, data |-> UNDEFINED, issues |-> paths]

\* every path of a set, under key k
Under(k, paths) == {<<k>> \o p : p \in paths}

TensorDataTypes ==
  {"F32", "F16", "BF16", "I8", "I16", "I32", "I64", "U8", "U16", "U32", "U64"}

\* z.enum([...])
zTensorDataType(v) ==
  IF v.t = "str" /\ v.s \in TensorDataTypes THEN ZodOk(v) ELSE ZodFail({<<>>})

\* z.number()
zNumber(v) == IF v.t = "num" THEN ZodOk(v) ELSE ZodFail({<<>>})

\* z.string()
zString(v) == IF v.t = "str" THEN ZodOk(v) ELSE ZodFail({<<>>})

\* z.array(z.number())
zNumberArray(v) ==
  IF v.t # "arr" THEN ZodFail({<<>>})
  ELSE LET bad == {i \in 1..Len(v.a) : ~zNumber(v.a[i]).success}
       IN  IF bad = {} THEN ZodOk(v)
           ELSE ZodFail({<<NumToStr(i - 1)>> : i \in bad})

\* mutant of zOffsetsTuple: an array of numbers of any length
zOffsetsTuple_AnyLength(v) == zNumberArray(v)

\* z.tuple([z.number(), z.number()])
zOffsetsTuple(v) ==
  IF v.t # "arr" \/ Len(v.a) # 2 THEN ZodFail({<<>>})
  ELSE LET bad == {i \in 1..Len(v.a) : ~zNumber(v.a[i]).success}
       IN  IF bad = {} THEN ZodOk(v)
           ELSE ZodFail({<<NumToStr(i - 1)>> : i \in bad})

\* z.object({dtype, shape, data_offsets}): unknown keys are stripped, the
\* output holds the three fields in the order of the schema
zRawTensorInfo(v) ==
  IF v.t # "obj" THEN ZodFail({<<>>})
  ELSE
    With(zTensorDataType(Get(v, "dtype")), LAMBDA d :
    With(zNumberArray(Get(v, "shape")), LAMBDA sh :
    With(zOffsetsTuple(Get(v, "data_offsets")), LAMBDA off :
      IF d.success /\ sh.success /\ off.success
      THEN ZodOk(JObj(<<Entry("dtype", d.data), Entry("shape", sh.data),
                        Entry("data_offsets", off.data)>>))
      ELSE ZodFail(Under("dtype", d.issues) \cup Under("shape", sh.issues)
                   \cup Under("data_offsets", off.issues)))))

\* z.record(z.string(), z.string())
zRawMetadata(v) ==
  IF v.t # "obj" THEN ZodFail({<<>>})
  ELSE LET bad == {i \in 1..Len(v.o) : ~zString(v.o[i].v).success}
       IN  IF bad = {} THEN ZodOk(v)
           ELSE ZodFail({<<v.o[i].k>> : i \in bad})

\* z.union([zRawTensorInfo, zRawMetadata]): the first option that accepts
zEntryUnion(v) ==
  With(zRawTensorInfo(v), LAMBDA tensor :
    IF tensor.success THEN tensor
    ELSE With(zRawMetadata(v), LAMBDA metadata :
      IF metadata.success THEN metadata ELSE ZodFail({<<>>})))

\* the .refine() predicate of zSafetensorsHeaderData
MetadataIsObject(data) ==
  IF HasKey(data, "__metadata__") /\ Truthy(Get(data, "__metadata__"))
  THEN TypeofObject(Get(data, "__metadata__"))
       /\ Get(data, "__metadata__").t # "arr"
  ELSE TRUE

\* z.record(z.string(), z.union([...])).refine(...): the refinement runs
\* only when every entry was accepted
zSafetensorsHeaderData(v) ==
  IF v.t # "obj" THEN ZodFail({<<>>})
  ELSE
    With([i \in 1..Len(v.o) |-> zEntryUnion(v.o[i].v)], LAMBDA rs :
      IF \E i \in 1..Len(v.o) : ~rs[i].success
      THEN ZodFail({<<v.o[i].k>> : i \in {i \in 1..Len(v.o) : ~rs[i].success}})
      ELSE With(JObj([i \in 1..Len(v.o) |-> Entry(v.o[i].k, rs[i].data)]),
                LAMBDA out :
                  IF MetadataIsObject(out) THEN ZodOk(out) ELSE ZodFail({<<>>})))

\* z.object({size: z.number(), data: zSafetensorsHeaderData})
zSafetensorsHeader(v) ==
  IF v.t # "obj" THEN ZodFail({<<>>})
  ELSE
    With(zNumber(Get(v, "size")), LAMBDA sz :
    With(zSafetensorsHeaderData(Get(v, "data")), LAMBDA d :
      IF sz.success /\ d.success
      THEN ZodOk(JObj(<<Entry("size", sz.data), Entry("data", d.data)>>))
      ELSE ZodFail(Under("size", sz.issues) \cup Under("data", d.issues))))

-----------------------------------------------------------------------------
(* The header reader *)

HEADER_SIZE_BYTES == 8

MAX_HEADER_SIZE == 100 * 1024 * 1024

Half == 256 * 256

\* DataView.getUint16(off, true)
getUint16(buffer, off) == buffer[off + 1] + buffer[off + 2] * 256

\* DataView.getUint32(off, true), kept as its two 16-bit halves: the value
\* lo + hi * 65536 can exceed the integers TLC computes with
getUint32(buffer, off) ==
  [lo |-> getUint16(buffer, off), hi |-> getUint16(buffer, off + 2)]

\* mutant of SizeExceeds: the high 32 bits of the prefix are not looked at
SizeExceeds_LowOnly(low, high, max) ==
  \/ low.hi > max \div Half
  \/ low.hi = max \div Half /\ low.lo > max % Half

\* low + high * 0x100000000 > max, for max < 2^31
SizeExceeds(low, high, max) ==
  \/ high.lo > 0
  \/ high.hi > 0
  \/ low.hi > max \div Half
  \/ low.hi = max \div Half /\ low.lo > max % Half

\* low + high * 0x100000000 when it does not exceed MAX_HEADER_SIZE
SizeValue(low, high) == low.lo + low.hi * Half

Thrown(msg) == [ok |-> FALSE, value |-> UNDEFINED, message |-> msg]

Returned(v) == [ok |-> TRUE, value |-> v, message |-> ""]

\* the message leaves out the digits of the size, which may exceed 2^31
readHeaderSize(buffer) ==
  IF Len(buffer) < HEADER_SIZE_BYTES
  THEN Thrown("Invalid safetensors file: too small")
  ELSE
    With(getUint32(buffer, 0), LAMBDA low :
    With(getUint32(buffer, 4), LAMBDA high :
      IF SizeExceeds(low, high, MAX_HEADER_SIZE)
      THEN Thrown("Header size exceeds maximum allowed size "
                  \o NumToStr(MAX_HEADER_SIZE))
      ELSE Returned(SizeValue(low, high))))

\* What a parseHeader call did: the stages it went through (decoded: the
\* TextDecoder ran; parsed: JSON.parse was called; validated: safeParse was
\* called) and what it returned or threw.
HeaderOutcome(ok, msg, issues, header, decoded, parsed, validated) ==
  [ok |-> ok, message |-> msg, issues |-> issues, value |-> header,
   decoded |-> decoded, parsed |-> parsed, validated |-> validated]

\* mutant of IncompleteHeader: the 8 bytes of the prefix are not counted
IncompleteHeader_NoPrefix(buffer, headerSize) == Len(buffer) < headerSize

\* buffer.byteLength < HEADER_SIZE_BYTES + headerSize
IncompleteHeader(buffer, headerSize) ==
  Len(buffer) < HEADER_SIZE_BYTES + headerSize

\* mutant of InvalidJsonError: the parser's message is dropped
InvalidJsonError_NoCause(message) == "Invalid header JSON"

\* `Invalid header JSON: ${e}` for the SyntaxError e that JSON.parse threw
InvalidJsonError(message) == "Invalid header JSON: SyntaxError: " \o message

\* new Uint8Array(buffer, HEADER_SIZE_BYTES, headerSize)
HeaderBytes(buffer, headerSize) ==
  SubSeq(buffer, HEADER_SIZE_BYTES + 1, HEADER_SIZE_BYTES + headerSize)

\* the Uint8Array constructor throws a RangeError when the view would end
\* after the buffer
parseHeader(buffer) ==
  With(readHeaderSize(buffer), LAMBDA hs :
    IF ~hs.ok
    THEN HeaderOutcome(FALSE, hs.message, {}, UNDEFINED, FALSE, FALSE, FALSE)
    ELSE IF IncompleteHeader(buffer, hs.value)
    THEN HeaderOutcome(FALSE, "Invalid safetensors file: incomplete header",
                       {}, UNDEFINED, FALSE, FALSE, FALSE)
    ELSE IF HEADER_SIZE_BYTES + hs.value > Len(buffer)
    THEN HeaderOutcome(FALSE, "Invalid typed array length",
                       {}, UNDEFINED, FALSE, FALSE, FALSE)
    ELSE
      With(JSONparse(TextDecode(HeaderBytes(buffer, hs.value))), LAMBDA json :
        IF ~json.ok
        THEN HeaderOutcome(FALSE, InvalidJsonError(json.message),
                           {}, UNDEFINED, TRUE, TRUE, FALSE)
        ELSE
          With(zSafetensorsHeader(
                 JObj(<<Entry("size", JNum(hs.value)), Entry("data", json.v)>>)),
               LAMBDA result :
                 IF ~result.success
                 THEN HeaderOutcome(FALSE, "Invalid header structure: zod issues",
                                    result.issues, UNDEFINED, TRUE, TRUE, TRUE)
                 ELSE HeaderOutcome(TRUE, "", {}, result.data, TRUE, TRUE, TRUE))))

-----------------------------------------------------------------------------
(* Inputs of the header reader *)

MaxTensors == 2   \* tensor entries of a generated header

MaxPayload == 1   \* bytes of tensor payload after the header

NumArr(ns) == JArr([i \in 1..Len(ns) |-> JNum(ns[i])])

Desc(dtype, shape, offsets) ==
  JObj(<<Entry("dtype", JStr(dtype)), Entry("shape", NumArr(shape)),
         Entry("data_offsets", NumArr(offsets))>>)

\* the dtypes of the safetensors format, as the schema's tests list them
FormatDataTypes ==
  {"BOOL", "U8", "I8", "F8_E5M2", "F8_E4M3", "I16", "U16", "F16", "BF16",
   "I32", "U32", "F32", "F64", "I64", "U64"}

TensorNames == <<"weight", "lora_unet_w2", "emb3", "w4">>

FirstTensorPool ==
  {Desc(d, <<2, 3>>, <<0, 24>>) : d \in FormatDataTypes}
  \cup {Desc("F32", <<>>, <<0, 4>>), Desc("F16", <<10, 20>>, <<0, 800>>)}

MoreTensorPool == {Desc("F16", <<5, 5>>, <<800, 850>>), Desc("I64", <<>>, <<24, 32>>)}

StrRecord(pairs) == JObj([i \in 1..Len(pairs) |-> Entry(pairs[i][1], JStr(pairs[i][2]))])

MetadataPool ==
  {StrRecord(<<>>), StrRecord(<<<<"format", "pt">>>>),
   StrRecord(<<<<"format", "pt">>, <<"title", "Test Model">>>>)}

\* tensor entries: the first from FirstTensorPool, the others from MoreTensorPool
TensorLists ==
  UNION {{ts \in [1..n -> FirstTensorPool \cup MoreTensorPool] :
            /\ n > 0 => ts[1] \in FirstTensorPool
            /\ \A i \in 2..n : ts[i] \in MoreTensorPool} : n \in 0..MaxTensors}

TensorEntries(ts) == [i \in 1..Len(ts) |-> Entry(TensorNames[i], ts[i])]

\* header objects of the format: an optional __metadata__ of strings, then tensors
FormatHeaders ==
  {JObj(TensorEntries(ts)) : ts \in TensorLists}
  \cup {JObj(<<Entry("__metadata__", m)>> \o TensorEntries(ts)) :
          m \in MetadataPool, ts \in TensorLists}

\* the 8-byte little-endian prefix of n < 2^31
LE64(n) ==
  <<n % 256, (n \div 256) % 256, (n \div Half) % 256, n \div (Half * 256),
    0, 0, 0, 0>>

Zeros(k) == [i \in 1..k |-> 0]

\* a file: the prefix, the header text, k bytes of payload
FileBytes(text, k) == LE64(Len(text)) \o TextEncode(text) \o Zeros(k)

\* header texts that are cut short and given wrong prefixes
CutTexts ==
  {JSONstringify(JObj(<<Entry("__metadata__", StrRecord(<<<<"format", "pt">>>>)),
                        Entry("weight", Desc("F32", <<10, 20>>, <<0, 800>>))>>)),
   "{\"a\":[1, 2]}  "}

\* texts that are no JSON, and JSON that is no header
OddTexts ==
  {"", " ", "{", "{\"bad\":", "[1,2", "nul", "{\"a\":1,}", "{\"a\" 1}", "{} x",
   " { } ", "{}", "[]", "null", "5", "\"x\"", "{\"w\":5}", "{\"w\":{}}",
   "{\"__metadata__\":null}", "{\"__metadata__\":[\"not\",\"an\",\"object\"]}",
   "{\"w\":{\"dtype\":\"F32\",\"shape\":[1],\"data_offsets\":[0]}}",
   "{\"w\":{\"dtype\":\"F32\",\"shape\":[1],\"data_offsets\":[0,4],\"x\":1}}"}

\* prefixes around the 100 MiB limit and beyond 2^32
PrefixPool ==
  {<<b0, 0, b2, b3, b4, 0, 0, b7>> :
     b0 \in {0, 1}, b2 \in {0, 64}, b3 \in {0, 6, 7, 255}, b4 \in {0, 1},
     b7 \in {0, 255}}

Buffers ==
  {FileBytes(t, k) : t \in OddTexts, k \in 0..MaxPayload}
  \cup UNION {{SubSeq(FileBytes(t, 0), 1, n) : n \in 0..(7 + Len(t))} : t \in CutTexts}
  \cup UNION {{LE64(n) \o TextEncode(t) : n \in 0..(Len(t) + 2)} : t \in CutTexts}
  \cup {pre \o body : pre \in PrefixPool, body \in {<<>>, TextEncode("{}")}}

NoHeader == UNDEFINED

\* an input: a buffer, and the header object it was written from (if any)
HeaderInputs ==
  UNION {With(JSONstringify(h), LAMBDA text :
                {[h |-> h, buffer |-> FileBytes(text, k)] : k \in 0..MaxPayload}) :
           h \in FormatHeaders}
  \cup {[h |-> NoHeader, buffer |-> b] : b \in Buffers}

-----------------------------------------------------------------------------
(* The page's initial state *)

PageInit ==
  /\ isProcessing = FALSE
  /\ analysis = JNull
  /\ error = JNull
  /\ fileName = ""
  /\ tasks = <<>>
  /\ analyzed = UNDEFINED
  /\ currentPage = 1
  /\ showAllTensors = FALSE

-----------------------------------------------------------------------------
(* Specification of the header reader: a buffer, then one call on it *)

InitHeader ==
  /\ arg \in HeaderInputs
  /\ call = "init"
  /\ ret = UNDEFINED
  /\ PageInit

ReadHeaderSize ==
  /\ call = "init"
  /\ call' = "readHeaderSize"
  /\ ret' = readHeaderSize(arg.buffer)
  /\ UNCHANGED <<arg, pageVars>>

ParseHeader ==
  /\ call = "init"
  /\ call' = "parseHeader"
  /\ ret' = parseHeader(arg.buffer)
  /\ UNCHANGED <<arg, pageVars>>

NextHeader == ReadHeaderSize \/ ParseHeader

SpecHeader == InitHeader /\ [][NextHeader]_vars

-----------------------------------------------------------------------------
(* Claims about the header reader, checked under SpecHeader *)

\* the error kind of the design, read off the message of the Error thrown
ErrorKind(message) ==
  IF StartsWith(message, "Invalid safetensors file:") THEN "InvalidFormat"
  ELSE IF StartsWith(message, "Header size") /\ Includes(message, "exceeds maximum")
    THEN "HeaderTooLarge"
  ELSE IF StartsWith(message, "Invalid header JSON") THEN "InvalidJson"
  ELSE IF StartsWith(message, "Invalid header structure") THEN "ValidationError"
  ELSE "Other"

\* 100 MiB as the 8 bytes of a little-endian prefix
LimitBytes == <<0, 0, 64, 6, 0, 0, 0, 0>>

\* the prefix of a buffer of at least 8 bytes, as an unsigned 64-bit
\* little-endian integer, exceeds 100 MiB: compared byte by byte from the top
PrefixExceeds(buffer) ==
  \E i \in 1..8 : /\ buffer[i] > LimitBytes[i]
                  /\ \A j \in (i + 1)..8 : buffer[j] = LimitBytes[j]

\* the prefix, when it does not exceed 100 MiB
PrefixValue(buffer) ==
  buffer[1] + 256 * (buffer[2] + 256 * (buffer[3] + 256 * buffer[4]))

Called == call \in {"readHeaderSize", "parseHeader"}

\* C1: on a buffer of at least 8 bytes whose length prefix exceeds 100 MiB,
\* readHeaderSize and parseHeader fail with HeaderTooLarge, parseHeader before
\* it decodes or JSON-parses any header byte; a prefix of at most 100 MiB is
\* returned unchanged by readHeaderSize.
C1_HeaderTooLarge ==
  (Called /\ Len(arg.buffer) >= 8) =>
    IF PrefixExceeds(arg.buffer)
    THEN /\ ~ret.ok
         /\ ErrorKind(ret.message) = "HeaderTooLarge"
         /\ call = "parseHeader" => (~ret.decoded /\ ~ret.parsed /\ ~ret.validated)
    ELSE call = "readHeaderSize" =>
           (ret.ok /\ ret.value = PrefixValue(arg.buffer))

\* parseHeader has refused a prefix of 100 MiB + 1 before decoding anything
C1_Witness ==
  /\ call = "parseHeader"
  /\ Len(arg.buffer) >= 8
  /\ SubSeq(arg.buffer, 1, 8) = <<1, 0, 64, 6, 0, 0, 0, 0>>
  /\ ErrorKind(ret.message) = "HeaderTooLarge"
  /\ ~ret.decoded

\* the buffer ends before the 8 + N bytes its prefix announces
Truncated(buffer) ==
  \/ Len(buffer) < 8
  \/ PrefixExceeds(buffer)
  \/ Len(buffer) < 8 + PrefixValue(buffer)

\* C2 as claimed: truncated input is always rejected with InvalidFormat
\* (readHeaderSize below 8 bytes, parseHeader below 8 + N bytes) and never
\* yields a header.
C2_AlwaysInvalidFormat ==
  /\ (Called /\ Len(arg.buffer) < 8) =>
       (~ret.ok /\ ErrorKind(ret.message) = "InvalidFormat")
  /\ (call = "parseHeader" /\ Truncated(arg.buffer)) =>
       (~ret.ok /\ ErrorKind(ret.message) = "InvalidFormat")

\* C2 as amended: truncated input never yields a header; the error is
\* InvalidFormat below 8 bytes and below 8 + N bytes when N is at most
\* 100 MiB, and HeaderTooLarge when N exceeds 100 MiB.
C2_TruncatedRejected ==
  /\ (Called /\ Len(arg.buffer) < 8) =>
       (~ret.ok /\ ErrorKind(ret.message) = "InvalidFormat")
  /\ (call = "parseHeader" /\ Truncated(arg.buffer)) =>
       /\ ~ret.ok
       /\ ret.value = UNDEFINED
       /\ ErrorKind(ret.message) =
            IF Len(arg.buffer) >= 8 /\ PrefixExceeds(arg.buffer)
            THEN "HeaderTooLarge" ELSE "InvalidFormat"

\* parseHeader has refused a buffer that holds its prefix and part of its header
C2_Witness ==
  /\ call = "parseHeader"
  /\ Len(arg.buffer) > 8
  /\ ~PrefixExceeds(arg.buffer)
  /\ Len(arg.buffer) < 8 + PrefixValue(arg.buffer)
  /\ ret.message = "Invalid safetensors file: incomplete header"

\* C3: a header object of the format, written as JSON behind the 8-byte
\* length of that JSON, is parsed back by parseHeader: size is the byte
\* length of the JSON and data equals the object.
C3_RoundTrip ==
  (call = "parseHeader" /\ arg.h # NoHeader) =>
    /\ ret.ok
    /\ Get(ret.value, "size") = JNum(Len(TextEncode(JSONstringify(arg.h))))
    /\ DeepEqual(Get(ret.value, "data"), arg.h)

\* the header text of a buffer that holds all the bytes its prefix announces
HeaderText(buffer) == TextDecode(SubSeq(buffer, 9, 8 + PrefixValue(buffer)))

\* C4: when the header text is not valid JSON, parseHeader fails with
\* InvalidJson carrying the parser's message, without attempting schema
\* validation and without returning a header.
C4_InvalidJson ==
  (/\ call = "parseHeader"
   /\ ~Truncated(arg.buffer)
   /\ ~JSONparse(HeaderText(arg.buffer)).ok) =>
    /\ ~ret.ok
    /\ ErrorKind(ret.message) = "InvalidJson"
    /\ Includes(ret.message, JSONparse(HeaderText(arg.buffer)).message)
    /\ ~ret.validated
    /\ ret.value = UNDEFINED

\* parseHeader has refused the header text {"bad": with the parser's message
C4_Witness ==
  /\ call = "parseHeader"
  /\ ~Truncated(arg.buffer)
  /\ HeaderText(arg.buffer) = "{\"bad\":"
  /\ ret.message = "Invalid header JSON: SyntaxError: Unexpected end of JSON input"
  /\ ~ret.validated

-----------------------------------------------------------------------------
(* JavaScript operations the analysis uses *)

UpperCase == "ABCDEFGHIJKLMNOPQRSTUVWXYZ"

LowerCase == "abcdefghijklmnopqrstuvwxyz"

LowerChar(c) ==
  IF \E i \in 1..26 : Ch(UpperCase, i) = c
  THEN Ch(LowerCase, CHOOSE i \in 1..26 : Ch(UpperCase, i) = c)
  ELSE c

\* characters lo..hi of s in lower case
RECURSIVE LowerRange(_, _, _)
LowerRange(s, lo, hi) ==
  IF lo > hi THEN ""
  ELSE IF lo = hi THEN LowerChar(Ch(s, lo))
  ELSE LowerRange(s, lo, (lo + hi) \div 2)
       \o LowerRange(s, (lo + hi) \div 2 + 1, hi)

\* s.toLowerCase()
toLowerCase(s) == LowerRange(s, 1, Len(s))

\* s.lastIndexOf("."), 0-based, -1 when there is none
lastIndexOfDot(s) ==
  LET ks == {k \in 1..Len(s) : Ch(s, k) = "."}
  IN  IF ks = {} THEN -1 ELSE (CHOOSE k \in ks : \A m \in ks : m <= k) - 1

\* s.substring(start): a negative start counts as 0
substring(s, start) ==
  IF start <= 0 THEN s ELSE SubSeq(s, start + 1, Len(s))

\* NaN, and the numbers that are no integers: m * 10^e with e < 0 and m not
\* a multiple of 10
NaN == [t |-> "num", nan |-> TRUE]

JDec(m, e) == [t |-> "num", m |-> m, e |-> e]

IsInt(v) == v.t = "num" /\ "n" \in DOMAIN v

IsNaN(v) == v.t = "num" /\ "nan" \in DOMAIN v

\* truthiness, NaN and the non-integers included
Truthy2(v) ==
  IF v.t = "num" THEN (IF IsInt(v) THEN v.n # 0 ELSE ~IsNaN(v)) ELSE Truthy(v)

\* a || b
OrElse(a, b) == IF Truthy2(a) THEN a ELSE b

\* v[k] for a key k that is no index and not "length": undefined on
\* everything but an object that has the key
Prop(v, k) == IF v.t = "obj" THEN Get(v, k) ELSE UNDEFINED

\* typeof v === "string"
IsString(v) == v.t = "str"

RECURSIVE StringOf(_)
RECURSIVE JoinFrom(_, _)

\* a.join(",") from element i on
JoinFrom(a, i) ==
  IF i > Len(a) THEN ""
  ELSE (IF i > 1 THEN "," ELSE "")
       \o (IF a[i].t \in {"null", "undefined"} THEN "" ELSE StringOf(a[i]))
       \o JoinFrom(a, i + 1)

\* String(v)
StringOf(v) ==
  CASE v.t = "undefined" -> "undefined"
    [] v.t = "null" -> "null"
    [] v.t = "bool" -> (IF v.b THEN "true" ELSE "false")
    [] v.t = "num" -> (IF IsInt(v) THEN NumToStr(v.n)
                       ELSE IF IsNaN(v) THEN "NaN"
                       ELSE "decimal")
    [] v.t = "str" -> v.s
    [] v.t = "arr" -> JoinFrom(v.a, 1)
    [] v.t = "obj" -> "[object Object]"

\* Object.entries(v): the entries of an object, the indexed elements of an
\* array, the indexed characters of a string, nothing for other primitives
ObjectEntries(v) ==
  CASE v.t = "obj" -> v.o
    [] v.t = "arr" -> [i \in 1..Len(v.a) |-> Entry(NumToStr(i - 1), v.a[i])]
    [] v.t = "str" -> [i \in 1..Len(v.s) |-> Entry(NumToStr(i - 1), JStr(Ch(v.s, i)))]
    [] OTHER -> <<>>

\* Number(v) for the values the analysis meets: of the strings, only the
\* empty one and the runs of digits behind an optional "-" are read as
\* numbers; an array is read as the string of its elements
ToNumber(v) ==
  CASE v.t = "num" -> v
    [] v.t = "bool" -> JNum(IF v.b THEN 1 ELSE 0)
    [] v.t = "null" -> JNum(0)
    [] v.t \in {"str", "arr"} ->
         With(StringOf(v), LAMBDA s :
         With(IF Len(s) > 1 /\ Ch(s, 1) = "-" THEN 2 ELSE 1, LAMBDA j :
           IF \A i \in j..Len(s) : IsDigit(Ch(s, i))
           THEN JNum((IF j = 2 THEN -1 ELSE 1) * ScanDigits(s, j, 0).v)
           ELSE NaN))
    [] OTHER -> NaN

\* a * b, a + b and a - b on numbers: integers stay integers, everything
\* else is NaN
Times(a, b) == IF IsInt(a) /\ IsInt(b) THEN JNum(a.n * b.n) ELSE NaN

Plus(a, b) == IF IsInt(a) /\ IsInt(b) THEN JNum(a.n + b.n) ELSE NaN

Minus(a, b) == IF IsInt(a) /\ IsInt(b) THEN JNum(a.n - b.n) ELSE NaN

-----------------------------------------------------------------------------
(* detectModelType and extractLoRATargets.  A tensor name is a JavaScript  *)
(* value: a method call on it gives "T", "F" or, when the value has no     *)
(* such method, "X" (a TypeError is thrown).                               *)

\* name.includes(p): strings and arrays have the method
NameIncludes(name, p) ==
  CASE name.t = "str" -> (IF Includes(name.s, p) THEN "T" ELSE "F")
    [] name.t = "arr" ->
         (IF \E i \in 1..Len(name.a) : name.a[i] = JStr(p) THEN "T" ELSE "F")
    [] OTHER -> "X"

\* name.startsWith(p): only strings have the method
NameStartsWith(name, p) ==
  IF name.t = "str" THEN (IF StartsWith(name.s, p) THEN "T" ELSE "F") ELSE "X"

\* a && b and a || b, the right side evaluated only when needed
And3(a, b) == IF a = "T" THEN b ELSE a

Or3(a, b) == IF a = "F" THEN b ELSE a

\* names.some(P): decided by the first name on which P is not "F"
Some3(names, P(_)) ==
  LET ks == {k \in 1..Len(names) : P(names[k]) # "F"}
  IN  IF ks = {} THEN "F"
      ELSE P(names[CHOOSE k \in ks : \A m \in ks : k <= m])

IsLoraName(name) ==
  And3(NameIncludes(name, "lora_"),
       Or3(NameIncludes(name, ".alpha"),
           Or3(NameIncludes(name, ".lora_down"), NameIncludes(name, ".lora_up"))))

IsVAEName(name) ==
  Or3(NameStartsWith(name, "decoder."), NameStartsWith(name, "encoder."))

\* the UNet flag without the names that hold "unet"
IsUNetName_DiffusionOnly(name) == NameIncludes(name, "diffusion_model")

IsUNetName(name) ==
  Or3(NameIncludes(name, "diffusion_model"), NameIncludes(name, "unet"))

IsControlNetName(name) ==
  Or3(NameIncludes(name, "control_"),
      And3(NameIncludes(name, "input_blocks"), NameIncludes(name, "zero_convs")))

IsTextModelName(name) ==
  Or3(NameIncludes(name, "text_model"), NameIncludes(name, "text_encoder"))

IsCondStageName(name) == NameIncludes(name, "cond_stage_model")

IsFirstStageName(name) == NameIncludes(name, "first_stage_model")

IsEmbeddingName(name) ==
  Or3(NameIncludes(name, "emb"), IF name = JStr("weight") THEN "T" ELSE "F")

\* the hints with vae looked for before /lora
ArchitectureHint_VaeFirst(arch) ==
  IF Includes(arch, "vae") THEN "vae"
  ELSE IF Includes(arch, "/lora") THEN "lora"
  ELSE IF Includes(arch, "controlnet") THEN "controlnet"
  ELSE IF Includes(arch, "text_encoder") \/ Includes(arch, "clip")
    THEN "text_encoder"
  ELSE ""

\* the type the architecture hint gives: "" when no hint matches
ArchitectureHint(arch) ==
  IF Includes(arch, "/lora") THEN "lora"
  ELSE IF Includes(arch, "vae") THEN "vae"
  ELSE IF Includes(arch, "controlnet") THEN "controlnet"
  ELSE IF Includes(arch, "text_encoder") \/ Includes(arch, "clip")
    THEN "text_encoder"
  ELSE ""

NotAFunction == "not a function"

\* the rules with the embedding rule evaluated before the checkpoint rule
NameRules_EmbeddingFirst(tensorNames) ==
  LET hasLora_ == Some3(tensorNames, IsLoraName)
      hasVAE_ == Some3(tensorNames, IsVAEName)
      hasUNet_ == Some3(tensorNames, IsUNetName)
      hasControlNet_ == Some3(tensorNames, IsControlNetName)
      hasTextModel_ == Some3(tensorNames, IsTextModelName)
      hasCondStage_ == Some3(tensorNames, IsCondStageName)
      hasFirstStage_ == Some3(tensorNames, IsFirstStageName)
      hasEmbedding_ == IF Len(tensorNames) <= 5
                       THEN Some3(tensorNames, IsEmbeddingName) ELSE "F"
  IN  IF hasLora_ = "T" THEN Returned("lora")
      ELSE IF hasVAE_ = "T" /\ hasUNet_ = "F" THEN Returned("vae")
      ELSE IF hasControlNet_ = "T" THEN Returned("controlnet")
      ELSE IF hasTextModel_ = "T" /\ hasUNet_ = "F" THEN Returned("text_encoder")
      ELSE IF hasEmbedding_ = "T" THEN Returned("embedding")
      ELSE IF hasUNet_ = "T"
              /\ (hasCondStage_ = "T" \/ hasFirstStage_ = "T" \/ hasTextModel_ = "T")
        THEN Returned("checkpoint")
      ELSE IF hasUNet_ = "T" THEN Returned("diffusion_model")
      ELSE Returned("unknown")

\* the rules over the tensor names, in the order the code evaluates them
NameRules(tensorNames) ==
  LET hasLora == Some3(tensorNames, IsLoraName)
      hasVAE == Some3(tensorNames, IsVAEName)
      hasUNet == Some3(tensorNames, IsUNetName)
      hasControlNet == Some3(tensorNames, IsControlNetName)
      hasTextModel == Some3(tensorNames, IsTextModelName)
      hasCondStage == Some3(tensorNames, IsCondStageName)
      hasFirstStage == Some3(tensorNames, IsFirstStageName)
      hasEmbedding == IF Len(tensorNames) <= 5
                      THEN Some3(tensorNames, IsEmbeddingName) ELSE "F"
  IN  IF hasLora = "X" THEN Thrown(NotAFunction)
      ELSE IF hasLora = "T" THEN Returned("lora")
      ELSE IF hasVAE = "X" \/ hasUNet = "X" THEN Thrown(NotAFunction)
      ELSE IF hasVAE = "T" /\ hasUNet = "F" THEN Returned("vae")
      ELSE IF hasControlNet = "X" THEN Thrown(NotAFunction)
      ELSE IF hasControlNet = "T" THEN Returned("controlnet")
      ELSE IF hasTextModel = "X" THEN Thrown(NotAFunction)
      ELSE IF hasTextModel = "T" /\ hasUNet = "F" THEN Returned("text_encoder")
      ELSE IF hasCondStage = "X" \/ hasFirstStage = "X" THEN Thrown(NotAFunction)
      ELSE IF hasUNet = "T"
              /\ (hasCondStage = "T" \/ hasFirstStage = "T" \/ hasTextModel = "T")
        THEN Returned("checkpoint")
      ELSE IF hasEmbedding = "X" THEN Thrown(NotAFunction)
      ELSE IF hasEmbedding = "T" THEN Returned("embedding")
      ELSE IF hasUNet = "T" THEN Returned("diffusion_model")
      ELSE Returned("unknown")

\* detectModelType(tensorNames, metadata)
detectModelType(tensorNames, metadata) ==
  LET arch == Prop(metadata, "modelspec.architecture")
  IN  IF ~Truthy2(arch) THEN NameRules(tensorNames)
      ELSE IF ~IsString(arch) THEN Thrown(NotAFunction)
      ELSE IF ArchitectureHint(toLowerCase(arch.s)) # ""
        THEN Returned(ArchitectureHint(toLowerCase(arch.s)))
      ELSE NameRules(tensorNames)

\* the component a name adds to the set of targets: "" for none
LoRATargetOf(name) ==
  IF StartsWith(name.s, "lora_te1_") THEN "CLIP-L"
  ELSE IF StartsWith(name.s, "lora_te2_") THEN "CLIP-G"
  ELSE IF StartsWith(name.s, "lora_unet_") THEN "UNet"
  ELSE ""

\* the targets collected in an array instead of a set
RECURSIVE AddTargets_NoSet(_, _, _)
AddTargets_NoSet(tensorNames, i, acc) ==
  IF i > Len(tensorNames) THEN acc
  ELSE IF LoRATargetOf(tensorNames[i]) = ""
    THEN AddTargets_NoSet(tensorNames, i + 1, acc)
  ELSE AddTargets_NoSet(tensorNames, i + 1,
                        Append(acc, JStr(LoRATargetOf(tensorNames[i]))))

\* the targets of names i.., added to the set acc (kept in insertion order)
RECURSIVE AddTargets(_, _, _)
AddTargets(tensorNames, i, acc) ==
  IF i > Len(tensorNames) THEN acc
  ELSE LET target == LoRATargetOf(tensorNames[i])
       IN  IF target = "" \/ \E j \in 1..Len(acc) : acc[j] = JStr(target)
           THEN AddTargets(tensorNames, i + 1, acc)
           ELSE AddTargets(tensorNames, i + 1, Append(acc, JStr(target)))

\* extractLoRATargets(tensorNames)
extractLoRATargets(tensorNames) ==
  IF \E i \in 1..Len(tensorNames) : ~IsString(tensorNames[i])
  THEN Thrown(NotAFunction)
  ELSE Returned(JArr(AddTargets(tensorNames, 1, <<>>)))

-----------------------------------------------------------------------------
(* parseInt and parseFloat *)

HexDigits == "0123456789abcdef"

IsHexDigit(c) == \E i \in 1..16 : Ch(HexDigits, i) = LowerChar(c)

HexVal(c) == (CHOOSE i \in 1..16 : Ch(HexDigits, i) = LowerChar(c)) - 1

RECURSIVE ScanHex(_, _, _)
ScanHex(s, j, acc) ==
  IF j <= Len(s) /\ IsHexDigit(Ch(s, j))
  THEN ScanHex(s, j + 1, acc * 16 + HexVal(Ch(s, j)))
  ELSE Parsed(acc, j)

\* the position after an optional sign at i
AfterSign(s, i) == IF i <= Len(s) /\ Ch(s, i) \in {"-", "+"} THEN i + 1 ELSE i

SignAt(s, i) == IF i <= Len(s) /\ Ch(s, i) = "-" THEN -1 ELSE 1

\* parseInt(v): v as a string, blanks skipped, a sign, then decimal digits
\* or 0x and hexadecimal digits; NaN when there is no digit
parseInt(v) ==
  With(StringOf(v), LAMBDA s :
  With(SkipWs(s, 1), LAMBDA i :
  With(AfterSign(s, i), LAMBDA j :
    IF j + 1 <= Len(s) /\ SubSeq(s, j, j + 1) \in {"0x", "0X"}
    THEN With(ScanHex(s, j + 2, 0), LAMBDA r :
           IF r.i = j + 2 THEN NaN ELSE JNum(SignAt(s, i) * r.v))
    ELSE With(ScanDigits(s, j, 0), LAMBDA r :
           IF r.i = j THEN NaN ELSE JNum(SignAt(s, i) * r.v)))))

RECURSIVE Pow10(_)
Pow10(k) == IF k = 0 THEN 1 ELSE 10 * Pow10(k - 1)

\* m * 10^e as a number: an integer when it is one
RECURSIVE Decimal(_, _)
Decimal(m, e) ==
  IF m = 0 THEN JNum(0)
  ELSE IF e >= 0 THEN JNum(m * Pow10(e))
  ELSE IF m % 10 = 0 THEN Decimal(m \div 10, e + 1)
  ELSE JDec(m, e)

Infinity(sign) == [t |-> "num", inf |-> sign]

\* the digits after a "." behind the whole part, added to its digits
Fraction(s, whole) ==
  IF whole.i <= Len(s) /\ Ch(s, whole.i) = "."
  THEN ScanDigits(s, whole.i + 1, whole.v)
  ELSE whole

\* the number of digits of the fraction
FractionLen(whole, frac) ==
  IF frac.i > whole.i THEN frac.i - (whole.i + 1) ELSE 0

\* the value of an exponent part at position i: 0 when there is none
Exponent(s, i) ==
  IF i <= Len(s) /\ Ch(s, i) \in {"e", "E"}
  THEN With(AfterSign(s, i + 1), LAMBDA k :
       With(ScanDigits(s, k, 0), LAMBDA expo :
         IF expo.i > k THEN SignAt(s, i + 1) * expo.v ELSE 0))
  ELSE 0

\* parseFloat(v): v as a string, blanks skipped, a sign, then Infinity or
\* digits, a fraction and an exponent; NaN when there is no digit
parseFloat(v) ==
  With(StringOf(v), LAMBDA s :
  With(SkipWs(s, 1), LAMBDA i :
  With(AfterSign(s, i), LAMBDA j :
    IF LiteralAt(s, j, "Infinity") THEN Infinity(SignAt(s, i))
    ELSE
      With(ScanDigits(s, j, 0), LAMBDA whole :
      With(Fraction(s, whole), LAMBDA frac :
        IF frac.i = j \/ (frac.i = j + 1 /\ whole.i = j) THEN NaN
        ELSE Decimal(SignAt(s, i) * frac.v,
                     Exponent(s, frac.i) - FractionLen(whole, frac)))))))

-----------------------------------------------------------------------------
(* parseMetadata *)

ModelSpecFields ==
  {"sai_model_spec", "architecture", "implementation", "title", "description",
   "author", "date", "resolution", "prediction_type", "encoder_layer"}

IntFields ==
  {"num_train_images", "num_epochs", "network_dim", "network_alpha", "clip_skip"}

FloatFields == {"learning_rate", "noise_offset", "caption_dropout_rate"}

JsonFields == {"dataset_dirs", "tag_frequency"}

TextFields ==
  {"optimizer", "lr_scheduler", "training_started_at", "training_finished_at",
   "mixed_precision"}

\* HashField with the hash keys of the ss_ prefix left to the training fields
HashField_SshsOnly(key) ==
  CASE key = "sshs_model_hash" -> "model_hash"
    [] key = "sshs_legacy_hash" -> "legacy_hash"
    [] OTHER -> ""

\* the name of the hashes field a key sets: "" for the other keys
HashField(key) ==
  CASE key = "sshs_model_hash" -> "model_hash"
    [] key = "sshs_legacy_hash" -> "legacy_hash"
    [] key = "ss_sd_model_hash" -> "sd_model_hash"
    [] key = "ss_new_sd_model_hash" -> "new_sd_model_hash"
    [] OTHER -> ""

\* the comparison made in lower case
IsTrueText_AnyCase(value) == toLowerCase(StringOf(value)) = "true"

\* value === "True"
IsTrueText(value) == value = JStr("True")

\* the three records after one entry of the raw metadata
MetadataStep(acc, key, value) ==
  IF StartsWith(key, "modelspec.")
  THEN IF substring(key, 10) \in ModelSpecFields
       THEN [acc EXCEPT !.modelSpec = Put(@, substring(key, 10), value)]
       ELSE acc
  ELSE IF HashField(key) # ""
  THEN [acc EXCEPT !.hashes = Put(@, HashField(key), value)]
  ELSE IF ~StartsWith(key, "ss_") THEN acc
  ELSE
    With(substring(key, 3), LAMBDA field :
      IF field = "base_model_version" \/ field \in TextFields
      THEN [acc EXCEPT !.training = Put(@, field, value)]
      ELSE IF field \in IntFields
      THEN With(parseInt(value), LAMBDA intValue :
             IF IsNaN(intValue) THEN acc
             ELSE [acc EXCEPT !.training = Put(@, field, intValue)])
      ELSE IF field \in FloatFields
      THEN With(parseFloat(value), LAMBDA floatValue :
             IF IsNaN(floatValue) THEN acc
             ELSE [acc EXCEPT !.training = Put(@, field, floatValue)])
      ELSE IF field = "gradient_checkpointing"
      THEN [acc EXCEPT !.training = Put(@, field, JBool(IsTrueText(value)))]
      ELSE IF field \in JsonFields
      THEN With(JSONparse(StringOf(value)), LAMBDA json :
             IF ~json.ok THEN acc
             ELSE [acc EXCEPT !.training = Put(@, field, json.v)])
      ELSE acc)

RECURSIVE MetadataFrom(_, _, _)
MetadataFrom(entries, i, acc) ==
  IF i > Len(entries) THEN acc
  ELSE MetadataFrom(entries, i + 1,
                    MetadataStep(acc, entries[i].k, entries[i].v))

CannotConvert == "Cannot convert undefined or null to object"

\* parseMetadata without the try around JSON.parse: the SyntaxError leaves
\* the function
parseMetadata_NoCatch(raw) ==
  IF raw.t \in {"undefined", "null"} THEN Thrown(CannotConvert)
  ELSE IF \E i \in 1..Len(ObjectEntries(raw)) :
            /\ \E f \in JsonFields : ObjectEntries(raw)[i].k = "ss_" \o f
            /\ ~JSONparse(StringOf(ObjectEntries(raw)[i].v)).ok
  THEN Thrown("Unexpected token")
  ELSE Returned(MetadataFrom(ObjectEntries(raw), 1,
                  [modelSpec |-> JObj(<<>>), training |-> JObj(<<>>),
                   hashes |-> JObj(<<>>)]))

\* parseMetadata(raw): the records modelSpec, training and hashes
parseMetadata(raw) ==
  IF raw.t \in {"undefined", "null"} THEN Thrown(CannotConvert)
  ELSE Returned(MetadataFrom(ObjectEntries(raw), 1,
                  [modelSpec |-> JObj(<<>>), training |-> JObj(<<>>),
                   hashes |-> JObj(<<>>)]))

-----------------------------------------------------------------------------
(* extractTriggerWords *)

\* a key the target has keeps its value
RECURSIVE AssignFrom_KeepFirst(_, _, _)
AssignFrom_KeepFirst(target, entries, i) ==
  IF i > Len(entries) THEN target
  ELSE IF HasKey(target, entries[i].k)
    THEN AssignFrom_KeepFirst(target, entries, i + 1)
  ELSE AssignFrom_KeepFirst(Put(target, entries[i].k, entries[i].v), entries, i + 1)

\* Object.assign(target, source)
RECURSIVE AssignFrom(_, _, _)
AssignFrom(target, entries, i) ==
  IF i > Len(entries) THEN target
  ELSE AssignFrom(Put(target, entries[i].k, entries[i].v), entries, i + 1)

\* allTags after the categories i.. of the parsed value
RECURSIVE MergeTags(_, _, _)
MergeTags(categories, i, allTags) ==
  IF i > Len(categories) THEN allTags
  ELSE IF categories[i].v.t \in {"obj", "arr"}
    THEN MergeTags(categories, i + 1,
                   AssignFrom(allTags, ObjectEntries(categories[i].v), 1))
  ELSE MergeTags(categories, i + 1, allTags)

\* the comparator ([, a], [, b]) => b - a puts y before x
Before(y, x) ==
  With(Minus(ToNumber(y.v), ToNumber(x.v)), LAMBDA d : IsInt(d) /\ d.n > 0)

\* a stable sort by the comparator: entry x goes behind the entries that
\* are not to come after it
RECURSIVE InsertSorted(_, _)
InsertSorted(sorted, x) ==
  IF sorted = <<>> THEN <<x>>
  ELSE IF Before(x, sorted[Len(sorted)])
    THEN Append(InsertSorted(SubSeq(sorted, 1, Len(sorted) - 1), x),
                sorted[Len(sorted)])
  ELSE Append(sorted, x)

RECURSIVE SortFrom(_, _, _)
SortFrom(entries, i, sorted) ==
  IF i > Len(entries) THEN sorted
  ELSE SortFrom(entries, i + 1, InsertSorted(sorted, entries[i]))

\* a.slice(0, end) for a sequence a
SliceTo(a, end) ==
  With(ToNumber(end), LAMBDA n :
    IF ~IsInt(n)
    THEN (IF "inf" \in DOMAIN n /\ n.inf > 0 THEN a ELSE <<>>)
    ELSE IF n.n < 0
    THEN SubSeq(a, 1, IF Len(a) + n.n < 0 THEN 0 ELSE Len(a) + n.n)
    ELSE SubSeq(a, 1, IF n.n > Len(a) THEN Len(a) ELSE n.n))

\* the body of the try: the words, or the error that JSON.parse or
\* Object.values throws
TriggerWordsTried(tagFrequency, maxWords) ==
  With(JSONparse(StringOf(tagFrequency)), LAMBDA json :
    IF ~json.ok THEN Thrown(json.message)
    ELSE IF json.v.t \in {"null", "undefined"} THEN Thrown(CannotConvert)
    ELSE
      With(SliceTo(SortFrom(MergeTags(ObjectEntries(json.v), 1, JObj(<<>>)).o,
                            1, <<>>),
                   IF maxWords.t = "undefined" THEN JNum(5) ELSE maxWords),
           LAMBDA top : Returned(JArr([i \in 1..Len(top) |-> JStr(top[i].k)]))))

\* extractTriggerWords without its catch: the error leaves the function
extractTriggerWords_NoCatch(tagFrequency, maxWords) ==
  IF ~Truthy2(tagFrequency) THEN JArr(<<>>)
  ELSE With(TriggerWordsTried(tagFrequency, maxWords), LAMBDA r :
         IF r.ok THEN r.value ELSE r)

\* extractTriggerWords(tagFrequency, maxWords): maxWords is 5 when undefined
extractTriggerWords(tagFrequency, maxWords) ==
  IF ~Truthy2(tagFrequency) THEN JArr(<<>>)
  ELSE With(TriggerWordsTried(tagFrequency, maxWords), LAMBDA r :
         IF r.ok THEN r.value ELSE JArr(<<>>))

-----------------------------------------------------------------------------
(* calculateTensorStats *)

CannotRead == "Cannot read properties of undefined"

\* v[i] for an index i
Index(v, i) ==
  CASE v.t = "arr" -> (IF i < Len(v.a) THEN v.a[i + 1] ELSE UNDEFINED)
    [] v.t = "str" -> (IF i < Len(v.s) THEN JStr(Ch(v.s, i + 1)) ELSE UNDEFINED)
    [] v.t = "obj" -> Get(v, NumToStr(i))
    [] OTHER -> UNDEFINED

\* shape.reduce((a, b) => a * b, acc) from element i on
RECURSIVE ReduceTimes(_, _, _)
ReduceTimes(a, i, acc) ==
  IF i > Len(a) THEN acc
  ELSE ReduceTimes(a, i + 1, Times(acc, ToNumber(a[i])))

\* a scalar counted as no element
ShapeParams_ScalarIsZero(tensor) ==
  With(Prop(tensor, "shape"), LAMBDA shape :
    IF shape.t \in {"undefined", "null"} THEN Thrown(CannotRead)
    ELSE IF shape.t # "arr" THEN Thrown(NotAFunction)
    ELSE Returned(ReduceTimes(shape.a, 1, JNum(IF shape.a = <<>> THEN 0 ELSE 1))))

\* tensor.shape.reduce((a, b) => a * b, 1): a TypeError unless shape is an array
ShapeParams(tensor) ==
  With(Prop(tensor, "shape"), LAMBDA shape :
    IF shape.t \in {"undefined", "null"} THEN Thrown(CannotRead)
    ELSE IF shape.t # "arr" THEN Thrown(NotAFunction)
    ELSE Returned(ReduceTimes(shape.a, 1, JNum(1))))

\* dataTypes.add(dtype): objects are members by identity, so always new
SetAdd(set, v) ==
  IF v.t \notin {"obj", "arr"} /\ \E j \in 1..Len(set) : set[j] = v
  THEN set ELSE Append(set, v)

\* dtypeDistribution[key] = (dtypeDistribution[key] || 0) + 1
Increment(dist, key) ==
  Put(dist, key, Plus(ToNumber(OrElse(Prop(dist, key), JNum(0))), JNum(1)))

\* the loop of calculateTensorStats from tensor i on
RECURSIVE StatsFrom(_, _, _)
StatsFrom(tensors, i, acc) ==
  IF i > Len(tensors) THEN Returned(acc)
  ELSE
    With(Prop(tensors[i], "dtype"), LAMBDA dtype :
    With(ShapeParams(tensors[i]), LAMBDA params :
      IF ~params.ok THEN params
      ELSE StatsFrom(tensors, i + 1,
             [dataTypes |-> SetAdd(acc.dataTypes, dtype),
              dist |-> Increment(acc.dist, StringOf(dtype)),
              total |-> Plus(acc.total, params.value)])))

\* calculateTensorStats(tensors)
calculateTensorStats(tensors) ==
  With(StatsFrom(tensors, 1,
         [dataTypes |-> <<>>, dist |-> JObj(<<>>), total |-> JNum(0)]),
       LAMBDA r :
         IF ~r.ok THEN r
         ELSE Returned(JObj(<<Entry("tensor_count", JNum(Len(tensors))),
                              Entry("total_parameters", r.value.total),
                              Entry("data_types", JArr(r.value.dataTypes)),
                              Entry("dtype_distribution", r.value.dist)>>)))

-----------------------------------------------------------------------------
(* analyzeSafetensors *)

\* the tensors among the entries i.. of header.data
RECURSIVE TensorsFrom(_, _)
TensorsFrom(es, i) ==
  IF i > Len(es) THEN <<>>
  ELSE IF es[i].k # "__metadata__" /\ es[i].v.t = "obj" /\ HasKey(es[i].v, "dtype")
    THEN <<AssignFrom(JObj(<<Entry("name", JStr(es[i].k))>>), es[i].v.o, 1)>>
         \o TensorsFrom(es, i + 1)
  ELSE TensorsFrom(es, i + 1)

\* the entries of header.data that are taken as tensors: { name: key, ...value }
TensorsOf(data) == TensorsFrom(ObjectEntries(data), 1)

\* one element of the tensor list
TensorInfoOf(tensor) ==
  With(Prop(tensor, "data_offsets"), LAMBDA offsets :
    IF offsets.t \in {"undefined", "null"} THEN Thrown(CannotRead)
    ELSE Returned(JObj(<<
           Entry("name", Prop(tensor, "name")),
           Entry("dtype", Prop(tensor, "dtype")),
           Entry("shape", Prop(tensor, "shape")),
           Entry("data_offsets", offsets),
           Entry("size", Minus(ToNumber(Index(offsets, 1)),
                               ToNumber(Index(offsets, 0)))),
           Entry("parameters", ShapeParams(tensor).value)>>)))

\* tensors.length > limit
Exceeds(n, limit) ==
  With(ToNumber(limit), LAMBDA l : IsInt(l) /\ n > l.n)

TruncatedWarning(limit) ==
  "Tensor list truncated to " \o StringOf(limit) \o " items"

\* the tensor list and the warnings
TensorList(tensors, options) ==
  IF Prop(options, "include_tensors") = JBool(FALSE)
  THEN Returned([tensors |-> <<>>, warnings |-> <<>>])
  ELSE
    With(OrElse(Prop(options, "max_tensors"), JNum(Len(tensors))), LAMBDA limit :
    With(SliceTo(tensors, limit), LAMBDA shown :
    With([i \in 1..Len(shown) |-> TensorInfoOf(shown[i])], LAMBDA infos :
      IF \E i \in 1..Len(infos) : ~infos[i].ok THEN Thrown(CannotRead)
      ELSE Returned(
             [tensors |-> [i \in 1..Len(infos) |-> infos[i].value],
              warnings |-> IF Exceeds(Len(tensors), limit)
                           THEN <<JStr(TruncatedWarning(limit))>> ELSE <<>>]))))

\* the trigger words taken without the limit of the options
TriggerWords_NoLimit(training, options) ==
  IF Prop(options, "extract_trigger_words") = JBool(FALSE) THEN JArr(<<>>)
  ELSE extractTriggerWords(
         IF Truthy2(Prop(training, "tag_frequency"))
         THEN JStr(JSONstringify(Prop(training, "tag_frequency")))
         ELSE UNDEFINED,
         UNDEFINED)

\* the trigger words of the LoRA info
TriggerWords(training, options) ==
  IF Prop(options, "extract_trigger_words") = JBool(FALSE) THEN JArr(<<>>)
  ELSE extractTriggerWords(
         IF Truthy2(Prop(training, "tag_frequency"))
         THEN JStr(JSONstringify(Prop(training, "tag_frequency")))
         ELSE UNDEFINED,
         Prop(options, "max_trigger_words"))

LoRAInfoOf(targets, metadata, training, options) ==
  JObj(<<Entry("base_model", OrElse(Prop(training, "base_model_version"), JNull)),
         Entry("target_components", targets),
         Entry("rank", OrElse(Prop(training, "network_dim"), JNull)),
         Entry("alpha", OrElse(Prop(training, "network_alpha"), JNull)),
         Entry("trigger_words", TriggerWords(training, options)),
         Entry("module", Prop(metadata, "ss_network_module"))>>)

IsWeightName(name) == NameIncludes(name, "weight")

\* the compatibility flags
Compatibility(tensorNames, metadata) ==
  With(Prop(metadata, "format"), LAMBDA format :
  With(IF format = JStr("pt") THEN "T" ELSE Some3(tensorNames, IsWeightName),
       LAMBDA pytorch :
         IF pytorch = "X" THEN Thrown(NotAFunction)
         ELSE Returned(JObj(<<Entry("pytorch", JBool(pytorch = "T")),
                              Entry("tensorflow", JBool(format = JStr("tf"))),
                              Entry("jax", JBool(format = JStr("jax"))),
                              Entry("numpy", JBool(format = JStr("numpy")))>>))))

\* the statistics taken over the tensors of the list that is returned
StatsTensors_Shown(tensors, options) ==
  IF Prop(options, "include_tensors") = JBool(FALSE) THEN <<>>
  ELSE SliceTo(tensors, OrElse(Prop(options, "max_tensors"), JNum(Len(tensors))))

\* the tensors handed to calculateTensorStats: all of them, whatever the
\* options are
StatsTensors(tensors, options) == tensors

\* analyzeSafetensors(header, fileSize, options)
analyzeSafetensors(header, fileSize, options) ==
  With(Prop(header, "data"), LAMBDA data :
    IF data.t \in {"undefined", "null"} THEN Thrown(CannotRead)
    ELSE
      With(OrElse(Prop(data, "__metadata__"), JObj(<<>>)), LAMBDA metadata :
      With(TensorsOf(data), LAMBDA tensors :
      With([i \in 1..Len(tensors) |-> Prop(tensors[i], "name")],
           LAMBDA tensorNames :
      With(detectModelType(tensorNames, metadata), LAMBDA modelType :
        IF ~modelType.ok THEN modelType
        ELSE
          With(parseMetadata(metadata).value, LAMBDA parsed :
          With(calculateTensorStats(StatsTensors(tensors, options)),
               LAMBDA tensorStats :
            IF ~tensorStats.ok THEN tensorStats
            ELSE
              With(TensorList(tensors, options), LAMBDA list :
                IF ~list.ok THEN list
                ELSE
                  With(IF modelType.value = "lora"
                       THEN extractLoRATargets(tensorNames)
                       ELSE Returned(UNDEFINED), LAMBDA targets :
                    IF ~targets.ok THEN targets
                    ELSE
                      With(Compatibility(tensorNames, metadata), LAMBDA compat :
                        IF ~compat.ok THEN compat
                        ELSE Returned(JObj(<<
                          Entry("model_type", JStr(modelType.value)),
                          Entry("file_stats",
                                JObj(<<Entry("file_size", fileSize),
                                       Entry("header_size", Prop(header, "size"))>>
                                     \o tensorStats.value.o)),
                          Entry("raw_metadata", metadata),
                          Entry("model_spec", parsed.modelSpec),
                          Entry("training", parsed.training),
                          Entry("hashes", parsed.hashes),
                          Entry("lora_info",
                                IF modelType.value = "lora"
                                THEN LoRAInfoOf(targets.value, metadata,
                                                parsed.training, options)
                                ELSE UNDEFINED),
                          Entry("tensors", JArr(list.value.tensors)),
                          Entry("compatibility", compat.value),
                          Entry("warnings", JArr(list.value.warnings))>>))))))))))))

-----------------------------------------------------------------------------
(* Inputs of the schemas and of the analysis *)

\* candidates for a dtype
DtypeCandidates ==
  {JStr(d) : d \in FormatDataTypes \cup {"INT8", "FLOAT32", "unknown", "f32", ""}}
  \cup {JNull, UNDEFINED, JNum(1)}

\* an object with the given fields
Obj(pairs) == JObj([i \in 1..Len(pairs) |-> Entry(pairs[i][1], pairs[i][2])])

\* candidates for a tensor descriptor
DescCandidates ==
  {Desc(d, <<2, 3>>, <<0, 24>>) : d \in {"F32", "BOOL", "INT8"}}
  \cup {Desc("F16", <<>>, <<0, 2>>),
        Desc("F32", <<2>>, <<0>>),
        Desc("F32", <<2>>, <<0, 8, 16>>),
        Desc("F32", <<2>>, <<>>),
        Obj(<<<<"shape", NumArr(<<2>>)>>, <<"data_offsets", NumArr(<<0, 8>>)>>>>),
        Obj(<<<<"dtype", JStr("F32")>>, <<"data_offsets", NumArr(<<0, 8>>)>>>>),
        Obj(<<<<"dtype", JStr("F32")>>, <<"shape", NumArr(<<2>>)>>>>),
        Obj(<<<<"dtype", JStr("F32")>>, <<"shape", JStr("not an array")>>,
              <<"data_offsets", NumArr(<<0, 8>>)>>>>),
        Obj(<<<<"dtype", JStr("F32")>>, <<"shape", JArr(<<JNum(2), JStr("3")>>)>>,
              <<"data_offsets", NumArr(<<0, 8>>)>>>>),
        Obj(<<<<"dtype", JStr("F32")>>, <<"shape", NumArr(<<2>>)>>,
              <<"data_offsets", JArr(<<JNum(0), JStr("8")>>)>>>>),
        Obj(<<<<"dtype", JStr("F32")>>, <<"shape", NumArr(<<2>>)>>,
              <<"data_offsets", JNum(8)>>>>),
        Obj(<<<<"dtype", JStr("F32")>>, <<"shape", NumArr(<<2>>)>>,
              <<"data_offsets", NumArr(<<0, 8>>)>>, <<"extra", JStr("x")>>>>),
        StrRecord(<<>>), StrRecord(<<<<"dtype", "F32">>>>),
        JArr(<<>>), JNull, JNum(5), JStr("F32")}

\* values under __metadata__ that are no objects of strings
MetaOddPool ==
  {JArr(<<JStr("not"), JStr("an"), JStr("object")>>), JNull, JNum(5), JStr("x"),
   JBool(TRUE), Desc("F32", <<1>>, <<0, 4>>),
   Obj(<<<<"n", JNum(1)>>>>), Obj(<<<<"a", JStr("s")>>, <<"b", JNull>>>>)}

\* values under a tensor name that are no tensor descriptors
TensorOddPool ==
  {StrRecord(<<>>), StrRecord(<<<<"dtype", "F32">>>>),
   StrRecord(<<<<"dtype", "F32">>, <<"shape", "2">>>>),
   StrRecord(<<<<"format", "pt">>>>),
   JNum(5), JNull, JStr("x"), JArr(<<>>),
   Desc("F32", <<2>>, <<0, 8, 16>>), Desc("INT8", <<2>>, <<0, 2>>)}

\* tensor lists of the headers that hold an odd entry
FewTensorLists == {ts \in TensorLists : Len(ts) = 0 \/ ts[1] = Desc("F32", <<>>, <<0, 4>>)}

\* header objects with an entry the format does not allow
OddHeaders ==
  {JObj(<<Entry("__metadata__", m)>> \o TensorEntries(ts)) :
     m \in MetaOddPool, ts \in FewTensorLists}
  \cup {JObj(TensorEntries(ts) \o <<Entry("foo", v)>>) :
          v \in TensorOddPool, ts \in FewTensorLists}
  \cup {JObj(<<Entry("__metadata__", StrRecord(<<<<"format", "pt">>>>)),
               Entry("foo", v)>>) : v \in TensorOddPool}

HeaderDataCandidates ==
  FormatHeaders \cup OddHeaders \cup {JArr(<<>>), JNull, JStr("x"), JNum(5)}

\* candidates for { size, data }
HeaderCandidates ==
  {Obj(<<<<"size", JNum(100)>>, <<"data", d>>>>) : d \in HeaderDataCandidates}
  \cup {Obj(<<<<"size", JStr("100")>>, <<"data", JObj(<<>>)>>>>),
        Obj(<<<<"data", JObj(<<>>)>>>>), Obj(<<<<"size", JNum(100)>>>>),
        JNull}

FileSizes == {JNum(0), JNum(1000)}

OptionsPool ==
  {Obj(<<>>), Obj(<<<<"max_tensors", JNum(1)>>>>),
   Obj(<<<<"include_tensors", JBool(FALSE)>>>>),
   Obj(<<<<"max_trigger_words", JNum(20)>>>>)}

-----------------------------------------------------------------------------
(* Specification of the schemas and the analysis: a value, one schema      *)
(* applied to it, and the analysis of a header the schema accepted         *)

InitSchema ==
  /\ arg \in DtypeCandidates \cup DescCandidates \cup MetadataPool
             \cup MetaOddPool \cup HeaderDataCandidates \cup HeaderCandidates
  /\ call = "init"
  /\ ret = UNDEFINED
  /\ PageInit

ValidateDataType ==
  /\ call = "init"
  /\ call' = "zTensorDataType"
  /\ ret' = zTensorDataType(arg)
  /\ UNCHANGED <<arg, pageVars>>

ValidateTensorInfo ==
  /\ call = "init"
  /\ call' = "zRawTensorInfo"
  /\ ret' = zRawTensorInfo(arg)
  /\ UNCHANGED <<arg, pageVars>>

ValidateMetadata ==
  /\ call = "init"
  /\ call' = "zRawMetadata"
  /\ ret' = zRawMetadata(arg)
  /\ UNCHANGED <<arg, pageVars>>

ValidateHeaderData ==
  /\ call = "init"
  /\ call' = "zSafetensorsHeaderData"
  /\ ret' = zSafetensorsHeaderData(arg)
  /\ UNCHANGED <<arg, pageVars>>

ValidateHeader ==
  /\ call = "init"
  /\ call' = "zSafetensorsHeader"
  /\ ret' = zSafetensorsHeader(arg)
  /\ UNCHANGED <<arg, pageVars>>

\* analyzeSafetensors on the header that zSafetensorsHeader returned
Analyze ==
  /\ call = "zSafetensorsHeader"
  /\ ret.success
  /\ \E fileSize \in FileSizes, options \in OptionsPool :
       /\ arg' = [header |-> ret.data, fileSize |-> fileSize, options |-> options]
       /\ ret' = analyzeSafetensors(ret.data, fileSize, options)
  /\ call' = "analyzeSafetensors"
  /\ UNCHANGED pageVars

NextSchema ==
  \/ ValidateDataType
  \/ ValidateTensorInfo
  \/ ValidateMetadata
  \/ ValidateHeaderData
  \/ ValidateHeader
  \/ Analyze

SpecSchema == InitSchema /\ [][NextSchema]_vars

-----------------------------------------------------------------------------
(* Claims about the schemas and the analysis, checked under SpecSchema *)

\* C5: the dtype validator accepts exactly the fifteen dtypes of the format
\* and rejects every other value; so a header of the format, whatever the
\* dtypes of its tensors, passes validation.
C5_ExactlyFifteen ==
  /\ call = "zTensorDataType" =>
       (ret.success <=> arg \in {JStr(d) : d \in FormatDataTypes})
  /\ (call = "zSafetensorsHeaderData" /\ arg \in FormatHeaders) => ret.success

IsNumberArray(v) ==
  v.t = "arr" /\ \A i \in 1..Len(v.a) : v.a[i].t = "num"

\* all three fields, shape an array of numbers, data_offsets two numbers
WellFormedDescriptor(v) ==
  /\ v.t = "obj"
  /\ HasKey(v, "dtype") /\ HasKey(v, "shape") /\ HasKey(v, "data_offsets")
  /\ IsNumberArray(Get(v, "shape"))
  /\ IsNumberArray(Get(v, "data_offsets"))
  /\ Len(Get(v, "data_offsets").a) = 2

\* C6: a value is accepted as a tensor descriptor only if it has the three
\* fields dtype, shape and data_offsets, shape is an array of numbers and
\* data_offsets is an array of exactly two numbers.
C6_DescriptorOnlyIf ==
  (call = "zRawTensorInfo" /\ ret.success) => WellFormedDescriptor(arg)

\* a descriptor with an empty shape has been accepted, and what the schema
\* returned is the descriptor
C6_Witness ==
  /\ call = "zRawTensorInfo"
  /\ arg = Desc("F16", <<>>, <<0, 2>>)
  /\ ret.success
  /\ ret.data = arg

\* a plain object whose every value is a string
IsStringRecord(v) ==
  v.t = "obj" /\ \A i \in 1..Len(v.o) : v.o[i].v.t = "str"

\* every entry but __metadata__ is accepted as a tensor descriptor
TensorsAccepted(data) ==
  \A i \in 1..Len(data.o) :
    data.o[i].k # "__metadata__" => zRawTensorInfo(data.o[i].v).success

IsTensorDescriptor(v) ==
  /\ WellFormedDescriptor(v)
  /\ Get(v, "dtype") \in {JStr(d) : d \in FormatDataTypes}

\* C8: header validation rejects every header in which a key other than
\* __metadata__ maps to something that is no tensor descriptor, with an
\* issue that names the key.
C8_NonTensorRejected ==
  (call = "zSafetensorsHeaderData" /\ arg.t = "obj") =>
    \A i \in 1..Len(arg.o) :
      (arg.o[i].k # "__metadata__" /\ ~IsTensorDescriptor(arg.o[i].v)) =>
        (~ret.success /\ <<arg.o[i].k>> \in ret.issues)

\* C9: on every header the schema accepted, for every file size and every
\* options record, analyzeSafetensors returns an analysis and raises nothing.
C9_AnalysisNeverRaises ==
  call = "analyzeSafetensors" => ret.ok

-----------------------------------------------------------------------------
(* The page: handleFile and resetAnalysis.  An invocation of handleFile    *)
(* runs up to its first await when the file is dropped or selected, and    *)
(* goes on in later steps; tasks holds the invocations that are suspended. *)

MaxInFlight == 2   \* handleFile invocations suspended at the same time

File(name, bytes) == [name |-> name, bytes |-> bytes]

\* a file that holds a text
TextFile(name, text) == File(name, TextEncode(text))

LoraHeader ==
  Obj(<<<<"__metadata__", StrRecord(<<<<"ss_network_dim", "8">>>>)>>,
        <<"lora_unet_a.alpha", Desc("F16", <<2, 3>>, <<0, 12>>)>>>>)

PageFiles ==
  {File("model.safetensors",
        FileBytes(JSONstringify(Obj(<<<<"weight", Desc("F32", <<2>>, <<0, 8>>)>>>>)), 8)),
   File("lora.SAFETENSORS", FileBytes(JSONstringify(LoraHeader), 0)),
   File("cut.safetensors", <<12, 0, 0, 0, 0, 0, 0, 0, 123, 125>>),
   File("odd.safetensors", FileBytes("{\"foo\":{\"dtype\":\"F32\"}}", 0)),
   TextFile("header.json", JSONstringify(LoraHeader)),
   TextFile("raw.json", "{\"w\":5}"),
   TextFile("five.json", "5"),
   TextFile("broken.json", "{\"bad\":"),
   TextFile("notes.txt", "{}")}

validExtensions == <<".safetensors", ".json">>

\* file.name.toLowerCase().substring(file.name.lastIndexOf("."))
fileExtension(name) == substring(toLowerCase(name), lastIndexOfDot(name))

InvalidFileType ==
  "Invalid file type. Please select a .safetensors or .json file."

PageOptions == Obj(<<<<"max_trigger_words", JNum(20)>>>>)

\* file.slice(offset, offset + size).arrayBuffer()
readFile(file, offset, size) ==
  SubSeq(file.bytes, offset + 1,
         IF offset + size > Len(file.bytes) THEN Len(file.bytes) ELSE offset + size)

\* the tasks without task i
Without(i) == SubSeq(tasks, 1, i - 1) \o SubSeq(tasks, i + 1, Len(tasks))

\* catch (err) { setError(...); setAnalysis(null) } finally { setIsProcessing(false) }
Failed(message) ==
  /\ error' = JStr("Failed to process file: "
                   \o (IF message = "" THEN "Unknown error" ELSE message))
  /\ analysis' = JNull
  /\ isProcessing' = FALSE

\* setAnalysis(analysisResult), then finally { setIsProcessing(false) }
Succeeded(analysisResult) ==
  /\ analysis' = analysisResult
  /\ isProcessing' = FALSE
  /\ UNCHANGED error

\* analyzeSafetensors(header, file.size, { max_trigger_words: 20 }) and what
\* follows it
AnalyzeAndShow(header, file) ==
  /\ analyzed' = header
  /\ \E r \in {analyzeSafetensors(header, JNum(Len(file.bytes)), PageOptions)} :
       IF r.ok THEN Succeeded(r.value) ELSE Failed(r.message)

\* handleFile(file) up to its first await
HandleFile ==
  /\ Len(tasks) < MaxInFlight
  /\ \E file \in PageFiles :
       \E ext \in {fileExtension(file.name)} :
         IF \A i \in 1..Len(validExtensions) : validExtensions[i] # ext
         THEN /\ error' = JStr(InvalidFileType)
              /\ UNCHANGED <<isProcessing, analysis, fileName, tasks, analyzed>>
         ELSE /\ error' = JNull
              /\ isProcessing' = TRUE
              /\ fileName' = file.name
              /\ tasks' = Append(tasks, [file |-> file,
                                         pc |-> IF ext = ".json" THEN "text"
                                                ELSE "prefix",
                                         headerSize |-> 0])
              /\ UNCHANGED <<analysis, analyzed>>
  /\ UNCHANGED <<pureVars, tableVars>>

\* the .json branch after await file.text()
JsonRead ==
  /\ \E i \in 1..Len(tasks) :
       /\ tasks[i].pc = "text"
       /\ tasks' = Without(i)
       /\ \E json \in {JSONparse(TextDecode(tasks[i].file.bytes))} :
            IF ~json.ok
            THEN Failed(json.message) /\ UNCHANGED analyzed
            ELSE IF Truthy(json.v) /\ TypeofObject(json.v)
            THEN AnalyzeAndShow(
                   Obj(<<<<"size", JNum(Len(JSONstringify(json.v)))>>,
                         <<"data", json.v>>>>),
                   tasks[i].file)
            ELSE Failed("Invalid JSON structure") /\ UNCHANGED analyzed
  /\ UNCHANGED <<fileName, pureVars, tableVars>>

\* readHeaderStreaming after its read of the 8 bytes of the prefix: the
\* size is checked, and the prefix and the header are asked for
StreamPrefix ==
  /\ \E i \in 1..Len(tasks) :
       /\ tasks[i].pc = "prefix"
       /\ \E hs \in {readHeaderSize(readFile(tasks[i].file, 0, HEADER_SIZE_BYTES))} :
            IF ~hs.ok
            THEN /\ Failed(hs.message)
                 /\ tasks' = Without(i)
            ELSE /\ tasks' = [tasks EXCEPT ![i] =
                       [file |-> tasks[i].file, pc |-> "header",
                        headerSize |-> hs.value]]
                 /\ UNCHANGED <<isProcessing, analysis, error>>
  /\ UNCHANGED <<fileName, analyzed, pureVars, tableVars>>

\* readHeaderStreaming returns the bytes it read; parseHeader and the
\* analysis follow
StreamHeader ==
  /\ \E i \in 1..Len(tasks) :
       /\ tasks[i].pc = "header"
       /\ tasks' = Without(i)
       /\ \E header \in {parseHeader(readFile(tasks[i].file, 0,
                                     HEADER_SIZE_BYTES + tasks[i].headerSize))} :
            IF header.ok THEN AnalyzeAndShow(header.value, tasks[i].file)
            ELSE Failed(header.message) /\ UNCHANGED analyzed
  /\ UNCHANGED <<fileName, pureVars, tableVars>>

\* the button "Analyze New File", shown while there is an analysis
ResetAnalysis ==
  /\ Truthy(analysis)
  /\ analysis' = JNull
  /\ error' = JNull
  /\ fileName' = ""
  /\ UNCHANGED <<isProcessing, tasks, analyzed, pureVars, tableVars>>

InitPage ==
  /\ arg = UNDEFINED
  /\ call = "page"
  /\ ret = UNDEFINED
  /\ PageInit

NextPage ==
  \/ HandleFile
  \/ JsonRead
  \/ StreamPrefix
  \/ StreamHeader
  \/ ResetAnalysis

SpecPage == InitPage /\ [][NextPage]_vars

-----------------------------------------------------------------------------
(* Claims about the page, checked under SpecPage *)

\* C10: on both paths of handleFile, for .safetensors and for .json files,
\* analyzeSafetensors is handed only header data that header schema
\* validation accepts.
C10_OnlyValidatedAnalyzed ==
  analyzed # UNDEFINED => zSafetensorsHeader(analyzed).success

-----------------------------------------------------------------------------
(* Inputs of parseMetadata, detectModelType, extractLoRATargets and        *)
(* extractTriggerWords                                                     *)

MaxMetaKeys == 2     \* entries of a raw metadata map
MaxNames == 3        \* tensor names of an enumerated list
MaxCategories == 2   \* categories of a tag frequency

\* the sequences over a set S of length n, and of length at most n
RECURSIVE SeqsOfLen(_, _)
SeqsOfLen(S, n) ==
  IF n = 0 THEN {<<>>}
  ELSE {Append(q, x) : q \in SeqsOfLen(S, n - 1), x \in S}

SeqsUpTo(S, n) == UNION {SeqsOfLen(S, k) : k \in 0..n}

\* texts for an integer field and for a float field
IntTexts == {"32", "0", "12abc", "abc", "", " 7", "-4", "0.5", "0x1f", "x9"}

FloatTexts == {"0.0001", "3", "2.5x", "abc", "", ".5", "-1.25", "1e-3", ".", "Infinity"}

BoolTexts == {"True", "true", "TRUE", "1", "", "False", " True"}

JsonTexts == {"{\"img\":{\"a\":2}}", "[\"d\"]", "null", "{bad", "", "invalid json"}

HashKeys ==
  {"sshs_model_hash", "sshs_legacy_hash", "ss_sd_model_hash", "ss_new_sd_model_hash"}

\* keys that no case of parseMetadata names
OtherKeys ==
  {"format", "ss_", "ss_unknown", "ss_model_hash", "sshs_other", "model_hash",
   "modelspec.", "modelspec.unknown", "modelspec.ss_optimizer", "Ss_optimizer"}

\* the entries <<key, text>> one raw metadata map is built around
MetaEntries ==
  (HashKeys \X {"abc123"})
  \cup ({"ss_" \o f : f \in IntFields} \X IntTexts)
  \cup ({"ss_" \o f : f \in FloatFields} \X FloatTexts)
  \cup ({"ss_gradient_checkpointing"} \X BoolTexts)
  \cup ({"ss_" \o f : f \in JsonFields} \X JsonTexts)
  \cup ({"ss_" \o f : f \in TextFields \cup {"base_model_version"}} \X {"AdamW"})
  \cup ({"modelspec." \o f : f \in ModelSpecFields} \X {"1.0.0"})
  \cup (OtherKeys \X {"v"})

\* the entries that go with them
MetaContext ==
  {<<"ss_sd_model_hash", "ghi789">>, <<"ss_network_dim", "32">>,
   <<"ss_learning_rate", "abc">>, <<"ss_tag_frequency", "{bad">>,
   <<"ss_gradient_checkpointing", "True">>, <<"modelspec.title", "Test Model">>}

DistinctKeys(pairs) ==
  \A i, j \in 1..Len(pairs) : i # j => pairs[i][1] # pairs[j][1]

\* pairs with x put in at position p
InsertAt(pairs, x, p) ==
  SubSeq(pairs, 1, p - 1) \o <<x>> \o SubSeq(pairs, p, Len(pairs))

\* raw metadata maps: string to string, at most MaxMetaKeys entries
RawMetadataMaps ==
  {StrRecord(<<>>)}
  \cup {StrRecord(pairs) :
          pairs \in {q \in UNION {{InsertAt(ctx, e, p) : p \in 1..(Len(ctx) + 1)} :
                                    ctx \in SeqsUpTo(MetaContext, MaxMetaKeys - 1),
                                    e \in MetaEntries} :
                       DistinctKeys(q)}}

\* tensor names for detectModelType, one or two for each name flag
DetectNames ==
  {JStr("lora_unet_a.alpha"), JStr("decoder.conv_in.weight"),
   JStr("model.diffusion_model.a"), JStr("control_model.x"),
   JStr("text_model.emb.token"), JStr("cond_stage_model.b"),
   JStr("first_stage_model.c"), JStr("weight"), JStr("layer.bias"),
   JStr("input_blocks.0.zero_convs.0"), JStr("unet.mid.emb")}

\* a list filled up to n names with names that set no flag
PadTo(names, n) ==
  names \o [i \in 1..(n - Len(names)) |-> JStr("layer.bias")]

\* lists of tensor names: the short ones, and lists of five and of six names
DetectNameLists ==
  SeqsUpTo(DetectNames, MaxNames)
  \cup {PadTo(names, n) : names \in SeqsUpTo(DetectNames, 2), n \in {5, 6}}

\* metadata with an architecture field, without one, and no metadata
ArchitectureTexts ==
  {"stable-diffusion-xl-v1-base/lora", "vae", "controlnet-canny", "text_encoder",
   "clip-l", "vae/lora", "clip-vae", "vae/LoRA", "SDXL/LORA", "stable-diffusion", ""}

ArchitectureMetadata ==
  {StrRecord(<<<<"modelspec.architecture", a>>>>) : a \in ArchitectureTexts}

DetectInputs ==
  (DetectNameLists \X {UNDEFINED})
  \cup (SeqsUpTo(DetectNames, MaxNames - 1) \X {StrRecord(<<<<"format", "pt">>>>)})
  \cup (SeqsUpTo(DetectNames, MaxNames - 2) \X ArchitectureMetadata)

\* tensor names for extractLoRATargets
LoRANames ==
  {JStr("lora_te1_a.alpha"), JStr("lora_te2_b.alpha"), JStr("lora_unet_c.alpha"),
   JStr("lora_unet_d.lora_down.weight"), JStr("model.lora_te1_e")}

LoRANameLists == SeqsUpTo(LoRANames, MaxNames)

\* a category: tags with their counts
TagCounts == {"a", "b"} \X {1, 2, 3}

Categories == {q \in SeqsUpTo(TagCounts, 2) : DistinctKeys(q)}

LaterCategories ==
  {<<>>, <<<<"a", 3>>>>, <<<<"c", 2>>>>, <<<<"b", 1>>, <<"a", 1>>>>,
   <<<<"a", 1>>, <<"b", 2>>>>}

SixTags ==
  <<<<<<"a", 1>>, <<"b", 4>>, <<"c", 2>>>>,
    <<<<"d", 6>>, <<"e", 3>>, <<"f", 5>>, <<"a", 7>>>>>>

\* tag frequencies: a sequence of categories
TagFrequencies ==
  {<<>>, SixTags}
  \cup {<<first>> \o later : first \in Categories,
                             later \in SeqsUpTo(LaterCategories, MaxCategories - 1)}

\* the JSON value of a tag frequency, its categories named img1, img2, ...
CategoryValue(category) ==
  JObj([i \in 1..Len(category) |-> Entry(category[i][1], JNum(category[i][2]))])

TagFrequencyValue(categories) ==
  JObj([i \in 1..Len(categories) |->
         Entry("img" \o NatToStr(i), CategoryValue(categories[i]))])

\* values of maxWords
WordLimits == {UNDEFINED, JNum(0), JNum(1), JNum(2), JNum(5), JNum(20)}

\* tag frequency arguments that are no string of categories of tags
OddTagFrequencies ==
  {UNDEFINED, JStr(""), JStr("invalid json"), JStr("{\"img\":"), JStr("null"),
   JStr("5"), JStr("true"), JStr("\"text\""), JStr("[1,2]"),
   JStr("[{\"a\":1}]"), JStr("{\"img\":5}"), JStr("{\"img\":\"text\"}"),
   JStr("{\"img\":null}"), JStr("{\"img\":[3,4]}"),
   JStr("{\"img\":{\"a\":\"x\",\"b\":null,\"c\":{}}}")}

PartInputs ==
  {[fn |-> "parseMetadata", raw |-> raw] : raw \in RawMetadataMaps}
  \cup {[fn |-> "detectModelType", tensorNames |-> d[1], metadata |-> d[2]] :
          d \in DetectInputs}
  \cup {[fn |-> "extractLoRATargets", tensorNames |-> names] :
          names \in LoRANameLists}
  \cup {[fn |-> "extractTriggerWords", wellFormed |-> TRUE, categories |-> c,
         tagFrequency |-> JStr(JSONstringify(TagFrequencyValue(c))),
         maxWords |-> k] : c \in TagFrequencies, k \in WordLimits}
  \cup {[fn |-> "extractTriggerWords", wellFormed |-> FALSE, categories |-> <<>>,
         tagFrequency |-> t, maxWords |-> k] :
          t \in OddTagFrequencies, k \in {UNDEFINED, JNum(2)}}

-----------------------------------------------------------------------------
(* Specification of the parts of the analysis: arguments, and one function *)
(* applied to them                                                         *)

InitParts ==
  /\ arg \in PartInputs
  /\ call = "init"
  /\ ret = UNDEFINED
  /\ PageInit

ParseMetadata ==
  /\ call = "init"
  /\ arg.fn = "parseMetadata"
  /\ call' = "parseMetadata"
  /\ ret' = parseMetadata(arg.raw)
  /\ UNCHANGED <<arg, pageVars>>

DetectModelType ==
  /\ call = "init"
  /\ arg.fn = "detectModelType"
  /\ call' = "detectModelType"
  /\ ret' = detectModelType(arg.tensorNames, arg.metadata)
  /\ UNCHANGED <<arg, pageVars>>

ExtractLoRATargets ==
  /\ call = "init"
  /\ arg.fn = "extractLoRATargets"
  /\ call' = "extractLoRATargets"
  /\ ret' = extractLoRATargets(arg.tensorNames)
  /\ UNCHANGED <<arg, pageVars>>

ExtractTriggerWords ==
  /\ call = "init"
  /\ arg.fn = "extractTriggerWords"
  /\ call' = "extractTriggerWords"
  /\ ret' = extractTriggerWords(arg.tagFrequency, arg.maxWords)
  /\ UNCHANGED <<arg, pageVars>>

NextParts ==
  \/ ParseMetadata
  \/ DetectModelType
  \/ ExtractLoRATargets
  \/ ExtractTriggerWords

SpecParts == InitParts /\ [][NextParts]_vars

-----------------------------------------------------------------------------
(* Claims about the parts of the analysis, checked under SpecParts *)

\* the keys of a JavaScript object
KeysOf(obj) == {obj.o[i].k : i \in 1..Len(obj.o)}

\* the hash keys with the field of the hashes record each is to set
HashRoutes ==
  {<<"sshs_model_hash", "model_hash">>, <<"sshs_legacy_hash", "legacy_hash">>,
   <<"ss_sd_model_hash", "sd_model_hash">>,
   <<"ss_new_sd_model_hash", "new_sd_model_hash">>}

\* the fields of the training record that a case of parseMetadata names
TrainingFields ==
  IntFields \cup FloatFields \cup JsonFields \cup TextFields
  \cup {"base_model_version", "gradient_checkpointing"}

\* C11: parseMetadata routes every raw key to at most one of the three
\* records: each of the four hash keys sets its field of the hashes record,
\* and nothing else does; a field of the training record comes from an
\* allow-listed ss_ key that is no hash key, a field of the modelSpec record
\* from an allow-listed modelspec. key; other keys create no field.
C11_KeysRouted ==
  call = "parseMetadata" =>
    /\ ret.ok
    /\ \A route \in HashRoutes :
         /\ HasKey(ret.value.hashes, route[2]) <=> HasKey(arg.raw, route[1])
         /\ Get(ret.value.hashes, route[2]) = Get(arg.raw, route[1])
    /\ KeysOf(ret.value.hashes) \subseteq {route[2] : route \in HashRoutes}
    /\ \A f \in KeysOf(ret.value.training) :
         /\ f \in TrainingFields
         /\ HasKey(arg.raw, "ss_" \o f)
         /\ \A route \in HashRoutes : "ss_" \o f # route[1] /\ f # route[2]
    /\ \A f \in KeysOf(ret.value.modelSpec) :
         f \in ModelSpecFields /\ HasKey(arg.raw, "modelspec." \o f)

\* a map with the hash key ss_sd_model_hash and the training key
\* ss_network_dim has been parsed: one field in hashes, one in training
C11_Witness ==
  /\ call = "parseMetadata"
  /\ KeysOf(arg.raw) = {"ss_sd_model_hash", "ss_network_dim"}
  /\ KeysOf(ret.value.hashes) = {"sd_model_hash"}
  /\ KeysOf(ret.value.training) = {"network_dim"}
  /\ KeysOf(ret.value.modelSpec) = {}

\* the texts of the inputs that are a number from their first character to
\* their last (blanks before it aside)
NumberTexts ==
  {"32", "0", " 7", "-4", "0.5", "0x1f", "0.0001", "3", ".5", "-1.25", "1e-3",
   "Infinity"}

\* the entries of the raw map that belong to the integer and float fields
NumericEntries(raw) ==
  {e \in {raw.o[i] : i \in 1..Len(raw.o)} :
     \E f \in IntFields \cup FloatFields : e.k = "ss_" \o f}

\* C12: an integer or float training field is left unset whenever the raw
\* string does not parse as a number, and is set to a number, never NaN,
\* otherwise.
C12_UnsetUnlessNumber ==
  call = "parseMetadata" =>
    \A e \in NumericEntries(arg.raw) :
      /\ HasKey(ret.value.training, substring(e.k, 3)) <=> e.v.s \in NumberTexts
      /\ ~IsNaN(Get(ret.value.training, substring(e.k, 3)))

\* C13: when the key ss_gradient_checkpointing is present,
\* training.gradient_checkpointing is true if the raw string is exactly
\* "True" and false for every other string.
C13_GradientCheckpointing ==
  (call = "parseMetadata" /\ HasKey(arg.raw, "ss_gradient_checkpointing")) =>
    Get(ret.value.training, "gradient_checkpointing") =
      JBool(Get(arg.raw, "ss_gradient_checkpointing").s = "True")

\* ss_gradient_checkpointing "true" has been parsed to false
C13_Witness ==
  /\ call = "parseMetadata"
  /\ Get(arg.raw, "ss_gradient_checkpointing") = JStr("true")
  /\ Get(ret.value.training, "gradient_checkpointing") = JBool(FALSE)

\* the texts of the inputs that are not valid JSON
MalformedJsonTexts == {"{bad", "", "invalid json", "{\"img\":"}

\* the raw map without key k
RemoveKey(raw, k) == JObj(SelectSeq(raw.o, LAMBDA e : e.k # k))

\* C14: parseMetadata never raises for a string-to-string map; when
\* ss_dataset_dirs or ss_tag_frequency is not valid JSON, that field is left
\* unset and the three records are what they are for the map without the
\* malformed key.
C14_MalformedJsonSkipped ==
  call = "parseMetadata" =>
    /\ ret.ok
    /\ \A f \in JsonFields :
         (/\ HasKey(arg.raw, "ss_" \o f)
          /\ Get(arg.raw, "ss_" \o f).s \in MalformedJsonTexts) =>
           /\ ~HasKey(ret.value.training, f)
           /\ ret.value = parseMetadata(RemoveKey(arg.raw, "ss_" \o f)).value

\* a map with ss_tag_frequency "{bad" and ss_network_dim "32" has been
\* parsed: training holds network_dim alone
C14_Witness ==
  /\ call = "parseMetadata"
  /\ ret.ok
  /\ Get(arg.raw, "ss_tag_frequency") = JStr("{bad")
  /\ Get(arg.raw, "ss_network_dim") = JStr("32")
  /\ ret.value.training = Obj(<<<<"network_dim", JNum(32)>>>>)

\* the hint substrings in their order, each with its type
Hints ==
  <<<<"/lora", "lora">>, <<"vae", "vae">>, <<"controlnet", "controlnet">>,
    <<"text_encoder", "text_encoder">>, <<"clip", "text_encoder">>>>

\* the type of the first hint that text contains: "" when it contains none
FirstHint(text) ==
  IF \A i \in 1..Len(Hints) : ~Includes(text, Hints[i][1]) THEN ""
  ELSE Hints[CHOOSE i \in 1..Len(Hints) :
               /\ Includes(text, Hints[i][1])
               /\ \A j \in 1..(i - 1) : ~Includes(text, Hints[j][1])][2]

\* the architecture field of the metadata of a call: "" when there is none
ArchitectureOf(metadata) ==
  IF metadata.t = "obj" /\ HasKey(metadata, "modelspec.architecture")
  THEN Get(metadata, "modelspec.architecture").s ELSE ""

\* C15 as claimed: whenever the architecture field contains a hint
\* substring, detectModelType returns the type of the first hint it
\* contains, for every list of tensor names.
C15_HintDecides ==
  (call = "detectModelType" /\ FirstHint(ArchitectureOf(arg.metadata)) # "") =>
    ret = Returned(FirstHint(ArchitectureOf(arg.metadata)))

\* the architecture texts of the inputs in lower case
LowerText ==
  [text \in ArchitectureTexts |->
     CASE text = "vae/LoRA" -> "vae/lora"
       [] text = "SDXL/LORA" -> "sdxl/lora"
       [] OTHER -> text]

\* C15 as amended: the hints are looked for in the architecture field in
\* lower case; whenever it contains a hint substring then, detectModelType
\* returns the type of the first hint it contains, for every list of tensor
\* names.
C15_LowerCaseHintDecides ==
  (/\ call = "detectModelType"
   /\ arg.metadata.t = "obj"
   /\ HasKey(arg.metadata, "modelspec.architecture")
   /\ FirstHint(LowerText[ArchitectureOf(arg.metadata)]) # "") =>
    ret = Returned(FirstHint(LowerText[ArchitectureOf(arg.metadata)]))

\* the architecture "SDXL/LORA" has decided for lora over the names of a VAE
C15_Witness ==
  /\ call = "detectModelType"
  /\ ArchitectureOf(arg.metadata) = "SDXL/LORA"
  /\ arg.tensorNames = <<JStr("decoder.conv_in.weight")>>
  /\ ret = Returned("lora")

\* the name flags, over the texts of the names
SomeName(names, text) == \E i \in 1..Len(names) : Includes(names[i].s, text)

hasLora(names) ==
  \E i \in 1..Len(names) :
    /\ Includes(names[i].s, "lora_")
    /\ \/ Includes(names[i].s, ".alpha")
       \/ Includes(names[i].s, ".lora_down")
       \/ Includes(names[i].s, ".lora_up")

hasVAE(names) ==
  \E i \in 1..Len(names) :
    StartsWith(names[i].s, "decoder.") \/ StartsWith(names[i].s, "encoder.")

hasUNet(names) == SomeName(names, "diffusion_model") \/ SomeName(names, "unet")

hasControlNet(names) ==
  \/ SomeName(names, "control_")
  \/ \E i \in 1..Len(names) :
       Includes(names[i].s, "input_blocks") /\ Includes(names[i].s, "zero_convs")

hasTextModel(names) ==
  SomeName(names, "text_model") \/ SomeName(names, "text_encoder")

hasCondStage(names) == SomeName(names, "cond_stage_model")

hasFirstStage(names) == SomeName(names, "first_stage_model")

hasEmbedding(names) ==
  /\ Len(names) <= 5
  /\ SomeName(names, "emb") \/ \E i \in 1..Len(names) : names[i].s = "weight"

\* the type of the first rule of the ordered list that matches
FirstRule(names) ==
  IF hasLora(names) THEN "lora"
  ELSE IF hasVAE(names) /\ ~hasUNet(names) THEN "vae"
  ELSE IF hasControlNet(names) THEN "controlnet"
  ELSE IF hasTextModel(names) /\ ~hasUNet(names) THEN "text_encoder"
  ELSE IF hasUNet(names)
          /\ (hasCondStage(names) \/ hasFirstStage(names) \/ hasTextModel(names))
    THEN "checkpoint"
  ELSE IF hasEmbedding(names) THEN "embedding"
  ELSE IF hasUNet(names) THEN "diffusion_model"
  ELSE "unknown"

ModelTypes ==
  {"lora", "vae", "controlnet", "text_encoder", "checkpoint", "embedding",
   "diffusion_model", "unknown"}

\* no hint is found in the architecture field of the metadata of the call
NoHint == FirstHint(LowerText[ArchitectureOf(arg.metadata)]) = ""

\* C16: detectModelType never fails and returns one of the eight tags; when
\* no metadata hint matches, the tag is that of the first matching rule of
\* the ordered list over the name flags.
C16_FirstRuleDecides ==
  call = "detectModelType" =>
    /\ ret.ok
    /\ ret.value \in ModelTypes
    /\ NoHint => ret.value = FirstRule(arg.tensorNames)

\* names of a VAE and of a UNet, without metadata, have been classified as
\* diffusion_model: the rules for vae, checkpoint and embedding did not match
C16_Witness ==
  /\ call = "detectModelType"
  /\ arg.metadata = UNDEFINED
  /\ arg.tensorNames =
       <<JStr("decoder.conv_in.weight"), JStr("model.diffusion_model.a")>>
  /\ ret = Returned("diffusion_model")

\* C17: without a metadata hint, a list of at most 5 names that has hasUNet
\* together with hasCondStage, hasFirstStage or hasTextModel and matches none
\* of the lora, vae and controlnet rules is classified as checkpoint, never
\* as embedding, also when a name contains "emb" or equals "weight".
C17_CheckpointBeforeEmbedding ==
  (/\ call = "detectModelType"
   /\ NoHint
   /\ Len(arg.tensorNames) <= 5
   /\ hasUNet(arg.tensorNames)
   /\ \/ hasCondStage(arg.tensorNames)
      \/ hasFirstStage(arg.tensorNames)
      \/ hasTextModel(arg.tensorNames)
   /\ ~hasLora(arg.tensorNames)
   /\ ~(hasVAE(arg.tensorNames) /\ ~hasUNet(arg.tensorNames))
   /\ ~hasControlNet(arg.tensorNames)) =>
    ret = Returned("checkpoint")

\* two names, one of a UNet and one of a text model that contains "emb", and
\* the name "weight", have been classified as checkpoint
C17_Witness ==
  /\ call = "detectModelType"
  /\ arg.metadata = UNDEFINED
  /\ arg.tensorNames =
       <<JStr("model.diffusion_model.a"), JStr("text_model.emb.token"),
         JStr("weight")>>
  /\ hasEmbedding(arg.tensorNames)
  /\ ret = Returned("checkpoint")

\* the components with the prefix of the names of each
TargetPrefixes ==
  {<<"lora_te1_", "CLIP-L">>, <<"lora_te2_", "CLIP-G">>, <<"lora_unet_", "UNet">>}

\* the positions of the names that have the prefix
PrefixPositions(names, prefix) ==
  {i \in 1..Len(names) : StartsWith(names[i].s, prefix)}

\* the position of the first name with the prefix of component c
FirstPosition(names, c) ==
  CHOOSE i \in 1..Len(names) :
    \E tp \in TargetPrefixes :
      /\ tp[2] = c
      /\ i \in PrefixPositions(names, tp[1])
      /\ \A j \in PrefixPositions(names, tp[1]) : i <= j

\* C18: extractLoRATargets returns the components whose prefix some name
\* has, each once, in the order of the first name of each; the empty list
\* when no name has one of the three prefixes.
C18_TargetsInFirstSeenOrder ==
  call = "extractLoRATargets" =>
    /\ ret.ok
    /\ ret.value.t = "arr"
    /\ {ret.value.a[i] : i \in 1..Len(ret.value.a)} =
         {JStr(tp[2]) : tp \in {x \in TargetPrefixes :
                                  PrefixPositions(arg.tensorNames, x[1]) # {}}}
    /\ \A i, j \in 1..Len(ret.value.a) :
         i < j => /\ ret.value.a[i] # ret.value.a[j]
                  /\ FirstPosition(arg.tensorNames, ret.value.a[i].s)
                       < FirstPosition(arg.tensorNames, ret.value.a[j].s)

\* two names of the UNet around one of the first text encoder have given
\* UNet, then CLIP-L
C18_Witness ==
  /\ call = "extractLoRATargets"
  /\ arg.tensorNames =
       <<JStr("lora_unet_c.alpha"), JStr("lora_te1_a.alpha"),
         JStr("lora_unet_d.lora_down.weight")>>
  /\ ret = Returned(JArr(<<JStr("UNet"), JStr("CLIP-L")>>))

\* the tags of a tag frequency, and the count of a tag in the merged map:
\* its count in the last category that holds it
AllTags(categories) ==
  UNION {{categories[i][j][1] : j \in 1..Len(categories[i])} :
           i \in 1..Len(categories)}

HoldsTag(category, tag) == \E j \in 1..Len(category) : category[j][1] = tag

MergedCount(categories, tag) ==
  LET last == CHOOSE i \in 1..Len(categories) :
                /\ HoldsTag(categories[i], tag)
                /\ \A k \in (i + 1)..Len(categories) : ~HoldsTag(categories[k], tag)
      j == CHOOSE j \in 1..Len(categories[last]) : categories[last][j][1] = tag
  IN  categories[last][j][2]

\* the limit K of a call: 5 when maxWords is undefined
LimitOf(maxWords) == IF maxWords = UNDEFINED THEN 5 ELSE maxWords.n

Min(a, b) == IF a <= b THEN a ELSE b

\* C19: for a well-formed tag frequency and limit K (5 by default),
\* extractTriggerWords returns min(K, number of distinct tags) tags, each
\* once, in non-increasing order of their counts in the merged map, where a
\* tag of several categories has the count of the last one that holds it; no
\* tag left out has a higher count than a tag returned.
C19_TopTagsByMergedCount ==
  (call = "extractTriggerWords" /\ arg.wellFormed) =>
    /\ ret.t = "arr"
    /\ Len(ret.a) = Min(LimitOf(arg.maxWords), Cardinality(AllTags(arg.categories)))
    /\ \A i \in 1..Len(ret.a) :
         ret.a[i].t = "str" /\ ret.a[i].s \in AllTags(arg.categories)
    /\ \A i, j \in 1..Len(ret.a) :
         i < j => /\ ret.a[i] # ret.a[j]
                  /\ MergedCount(arg.categories, ret.a[i].s)
                       >= MergedCount(arg.categories, ret.a[j].s)
    /\ \A tag \in AllTags(arg.categories) :
         (\A i \in 1..Len(ret.a) : ret.a[i].s # tag) =>
           \A i \in 1..Len(ret.a) :
             MergedCount(arg.categories, ret.a[i].s)
               >= MergedCount(arg.categories, tag)

\* six tags in two categories with the default limit: five tags, the tag a
\* first with its count 7 of the second category
C19_Witness ==
  /\ call = "extractTriggerWords"
  /\ arg.categories = SixTags
  /\ arg.maxWords = UNDEFINED
  /\ ret = JArr(<<JStr("a"), JStr("d"), JStr("f"), JStr("b"), JStr("e")>>)

\* the tag frequency arguments of the inputs that are absent, empty or no
\* JSON
NoJsonArguments ==
  {UNDEFINED, JStr(""), JStr("invalid json"), JStr("{\"img\":")}

\* C20: extractTriggerWords never raises: for every argument, the absent,
\* empty, non-JSON and structurally unexpected ones included, it returns a
\* list of strings, and the empty list for an absent, empty or non-JSON one.
C20_AlwaysAList ==
  call = "extractTriggerWords" =>
    /\ "t" \in DOMAIN ret
    /\ ret.t = "arr"
    /\ \A i \in 1..Len(ret.a) : ret.a[i].t = "str"
    /\ arg.tagFrequency \in NoJsonArguments => ret = JArr(<<>>)

\* the JSON text null, on which Object.values throws, has given the empty
\* list
C20_Witness ==
  /\ call = "extractTriggerWords"
  /\ arg.tagFrequency = JStr("null")
  /\ ret = JArr(<<>>)

-----------------------------------------------------------------------------
(* Inputs of calculateTensorStats and of analyzeSafetensors *)

MaxStatTensors == 3   \* tensors of an enumerated list for calculateTensorStats

MaxShown == 3         \* tensor entries of a header for analyzeSafetensors

\* a tensor as the caller describes it: its dtype and its shape
StatDtypes == {"F32", "F16", "BF16"}

StatShapes == {<<>>, <<2, 3>>, <<0, 5>>}

RawTensors ==
  [dtype : {"F32", "F16"}, shape : StatShapes]
  \cup {[dtype |-> "BF16", shape |-> <<2, 3>>]}

\* the six tensors of the test of data_types
SixTensors ==
  [i \in 1..6 |-> [dtype |-> <<"F32", "F16", "F16", "F16", "BF16", "BF16">>[i],
                   shape |-> <<10>>]]

RawTensorLists == SeqsUpTo(RawTensors, MaxStatTensors) \cup {SixTensors}

\* { name, dtype, shape, data_offsets } of the i-th tensor
NamedTensor(raw, i) ==
  JObj(<<Entry("name", JStr("tensor" \o NatToStr(i))),
         Entry("dtype", JStr(raw.dtype)),
         Entry("shape", NumArr(raw.shape)),
         Entry("data_offsets", NumArr(<<4 * (i - 1), 4 * i>>))>>)

NamedTensors(raws) == [i \in 1..Len(raws) |-> NamedTensor(raws[i], i)]

\* a metadata text that is left out
Absent == "(absent)"

\* the __metadata__ of a header: the training fields that are given
MetaOf(dim, alpha, base, tags, arch) ==
  StrRecord(
    SelectSeq(<<<<"ss_network_dim", dim>>, <<"ss_network_alpha", alpha>>,
                <<"ss_base_model_version", base>>, <<"ss_tag_frequency", tags>>,
                <<"modelspec.architecture", arch>>>>,
              LAMBDA pair : pair[2] # Absent))

TagTexts ==
  {JSONstringify(TagFrequencyValue(SixTags)), "{\"img\":{\"a\":2}}", "{bad"}

AnalysisMetadata ==
  {MetaOf(dim, alpha, base, Absent, Absent) :
     dim \in {Absent, "32", "0", "abc"}, alpha \in {Absent, "16", "0"},
     base \in {Absent, "sd_v1", ""}}
  \cup {MetaOf("32", "16", "sd_v1", tags, arch) :
          tags \in TagTexts, arch \in {Absent, "sdxl/lora"}}

\* the tensor entries of a header: names of a LoRA, or names of no kind
LoRAEntryNames == <<"lora_unet_a.alpha", "lora_te1_b.weight", "lora_unet_c", "lora_te2_d">>

PlainEntryNames == <<"weight", "layer.bias", "w3", "w4">>

EntryDescs ==
  <<Desc("F16", <<2, 3>>, <<0, 12>>), Desc("F32", <<>>, <<12, 16>>),
    Desc("F16", <<4>>, <<16, 24>>), Desc("F32", <<0, 5>>, <<24, 24>>)>>

EntriesOf(names, n) == [i \in 1..n |-> Entry(names[i], EntryDescs[i])]

AnalysisEntries ==
  {EntriesOf(names, n) : names \in {LoRAEntryNames, PlainEntryNames},
                         n \in 0..MaxShown}

\* validated headers: { size, data }
HeaderOf(metadata, entries) ==
  Obj(<<<<"size", JNum(100)>>,
        <<"data", JObj(<<Entry("__metadata__", metadata)>> \o entries)>>>>)

AnalysisHeaders ==
  {HeaderOf(m, es) : m \in AnalysisMetadata, es \in AnalysisEntries}
  \cup {Obj(<<<<"size", JNum(100)>>, <<"data", JObj(es)>>>>) : es \in AnalysisEntries}

\* an options record: the options that are given
OptionsOf(include, maxTensors, extract, maxWords) ==
  JObj(SelectSeq(<<Entry("include_tensors", include),
                   Entry("max_tensors", maxTensors),
                   Entry("extract_trigger_words", extract),
                   Entry("max_trigger_words", maxWords)>>,
                 LAMBDA e : e.v # UNDEFINED))

TensorOptions ==
  {OptionsOf(include, maxTensors, UNDEFINED, UNDEFINED) :
     include \in {UNDEFINED, JBool(TRUE), JBool(FALSE)},
     maxTensors \in {UNDEFINED, JNum(0), JNum(1), JNum(2), JNum(5)}}

TriggerOptions ==
  {OptionsOf(UNDEFINED, UNDEFINED, extract, maxWords) :
     extract \in {UNDEFINED, JBool(TRUE), JBool(FALSE)},
     maxWords \in {UNDEFINED, JNum(0), JNum(1), JNum(20)}}

AnalysisOptions == TensorOptions \cup TriggerOptions

\* headers that are analysed twice
TwiceHeaders ==
  {HeaderOf(MetaOf("32", "16", "sd_v1", "{\"img\":{\"a\":2}}", Absent), es) :
     es \in AnalysisEntries}

\* header texts whose descriptors hold numbers of every sign
SignedTexts ==
  {"{\"w\":{\"dtype\":\"F32\",\"shape\":" \o shape \o ",\"data_offsets\":"
     \o offsets \o "}}" :
     shape \in {"[]", "[2,3]", "[0]", "[-2]", "[-2,-3]", "[2,-3]"},
     offsets \in {"[0,24]", "[8,8]", "[8,0]", "[-8,-4]", "[-4,-8]", "[0,-1]"}}

AnalysisInputs ==
  {[fn |-> "calculateTensorStats", raws |-> raws, tensors |-> NamedTensors(raws)] :
     raws \in RawTensorLists}
  \cup {[fn |-> "analyzeSafetensors", header |-> h, fileSize |-> JNum(1000),
         options |-> o] : h \in AnalysisHeaders, o \in AnalysisOptions}
  \cup {[fn |-> "analyzeTwice", header |-> h, fileSize |-> JNum(1000),
         options |-> o] : h \in TwiceHeaders, o \in AnalysisOptions}
  \cup {[fn |-> "parseHeader", buffer |-> FileBytes(text, 0)] : text \in SignedTexts}

-----------------------------------------------------------------------------
(* Specification of the analysis: arguments, a call of calculateTensorStats *)
(* or of analyzeSafetensors on them, a second analysis of the same header   *)
(* under other options, and the analysis of a header that parseHeader       *)
(* returned                                                                 *)

InitAnalysis ==
  /\ arg \in AnalysisInputs
  /\ call = "init"
  /\ ret = UNDEFINED
  /\ PageInit

CalculateTensorStats ==
  /\ call = "init"
  /\ arg.fn = "calculateTensorStats"
  /\ call' = "calculateTensorStats"
  /\ ret' = calculateTensorStats(arg.tensors)
  /\ UNCHANGED <<arg, pageVars>>

AnalyzeSafetensors ==
  /\ call = "init"
  /\ arg.fn \in {"analyzeSafetensors", "analyzeTwice"}
  /\ call' = "analyzeSafetensors"
  /\ ret' = analyzeSafetensors(arg.header, arg.fileSize, arg.options)
  /\ UNCHANGED <<arg, pageVars>>

\* the same header and file size analysed again, under options of any kind;
\* arg keeps the first analysis
AnalyzeAgain ==
  /\ call = "analyzeSafetensors"
  /\ arg.fn = "analyzeTwice"
  /\ \E options \in AnalysisOptions :
       /\ arg' = [fn |-> "analyzedTwice", header |-> arg.header,
                  fileSize |-> arg.fileSize, options |-> options,
                  first |-> [options |-> arg.options, ret |-> ret]]
       /\ ret' = analyzeSafetensors(arg.header, arg.fileSize, options)
  /\ call' = "analyzeAgain"
  /\ UNCHANGED pageVars

ParseSigned ==
  /\ call = "init"
  /\ arg.fn = "parseHeader"
  /\ call' = "parseHeader"
  /\ ret' = parseHeader(arg.buffer)
  /\ UNCHANGED <<arg, pageVars>>

\* analyzeSafetensors on the header that parseHeader returned
AnalyzeParsed ==
  /\ call = "parseHeader"
  /\ arg.fn = "parseHeader"
  /\ ret.ok
  /\ arg' = [fn |-> "analyzeParsed", header |-> ret.value,
             fileSize |-> JNum(Len(arg.buffer)), options |-> JObj(<<>>)]
  /\ ret' = analyzeSafetensors(ret.value, JNum(Len(arg.buffer)), JObj(<<>>))
  /\ call' = "analyzeParsed"
  /\ UNCHANGED pageVars

NextAnalysis ==
  \/ CalculateTensorStats
  \/ AnalyzeSafetensors
  \/ AnalyzeAgain
  \/ ParseSigned
  \/ AnalyzeParsed

SpecAnalysis == InitAnalysis /\ [][NextAnalysis]_vars

-----------------------------------------------------------------------------
(* Claims about the statistics and the analysis, checked under SpecAnalysis *)

\* the number of elements of a tensor of the given shape
RECURSIVE Product(_)
Product(shape) ==
  IF shape = <<>> THEN 1 ELSE Head(shape) * Product(Tail(shape))

RECURSIVE SumOfProducts(_)
SumOfProducts(raws) ==
  IF raws = <<>> THEN 0 ELSE Product(Head(raws).shape) + SumOfProducts(Tail(raws))

\* the positions of the tensors of dtype d
PositionsOf(raws, d) == {i \in 1..Len(raws) : raws[i].dtype = d}

\* C21: for every tensor list calculateTensorStats returns tensor_count = the
\* number of tensors, total_parameters = the sum over the tensors of the
\* product of the shape dimensions (1 for an empty shape) and
\* dtype_distribution[d] = the number of tensors of dtype d; for the empty
\* list it returns 0, 0, no data types and an empty distribution, and no
\* error.
C21_Aggregates ==
  call = "calculateTensorStats" =>
    /\ ret.ok
    /\ Get(ret.value, "tensor_count") = JNum(Len(arg.raws))
    /\ Get(ret.value, "total_parameters") = JNum(SumOfProducts(arg.raws))
    /\ Get(ret.value, "dtype_distribution").t = "obj"
    /\ \A d \in StatDtypes \cup {"I8"} :
         IF PositionsOf(arg.raws, d) = {}
         THEN ~HasKey(Get(ret.value, "dtype_distribution"), d)
         ELSE Get(Get(ret.value, "dtype_distribution"), d)
                = JNum(Cardinality(PositionsOf(arg.raws, d)))
    /\ \A i \in 1..Len(Get(ret.value, "dtype_distribution").o) :
         Get(ret.value, "dtype_distribution").o[i].k \in StatDtypes
    /\ arg.raws = <<>> =>
         /\ Get(ret.value, "data_types") = JArr(<<>>)
         /\ Get(ret.value, "dtype_distribution") = JObj(<<>>)

\* a scalar, a tensor of six elements and a tensor of none have been counted
C21_Witness ==
  /\ call = "calculateTensorStats"
  /\ arg.raws = <<[dtype |-> "F32", shape |-> <<>>],
                  [dtype |-> "F16", shape |-> <<2, 3>>],
                  [dtype |-> "F32", shape |-> <<0, 5>>]>>
  /\ Get(ret.value, "total_parameters") = JNum(7)
  /\ Get(ret.value, "dtype_distribution")
       = JObj(<<Entry("F32", JNum(2)), Entry("F16", JNum(1))>>)

\* dtype d comes before dtype e: it is used more often, or as often and
\* first appears earlier
ComesBefore(raws, d, e) ==
  \/ Cardinality(PositionsOf(raws, d)) > Cardinality(PositionsOf(raws, e))
  \/ /\ Cardinality(PositionsOf(raws, d)) = Cardinality(PositionsOf(raws, e))
     /\ \E i \in PositionsOf(raws, d) : \A j \in PositionsOf(raws, e) : i < j

\* C22: data_types holds each dtype used exactly once, ordered by descending
\* occurrence count, dtypes of equal count by their first appearance in the
\* tensor list.
C22_DataTypesByCount ==
  call = "calculateTensorStats" =>
    /\ ret.ok
    /\ Get(ret.value, "data_types").t = "arr"
    /\ {Get(ret.value, "data_types").a[i] :
          i \in 1..Len(Get(ret.value, "data_types").a)}
         = {JStr(arg.raws[i].dtype) : i \in 1..Len(arg.raws)}
    /\ \A i, j \in 1..Len(Get(ret.value, "data_types").a) :
         i < j => ComesBefore(arg.raws, Get(ret.value, "data_types").a[i].s,
                                        Get(ret.value, "data_types").a[j].s)

\* the tensor entries of a header, in header order
EntriesOfHeader(header) ==
  SelectSeq(Get(header, "data").o, LAMBDA e : e.k # "__metadata__")

\* the names of the tensors of an analysis
ShownNames(result) ==
  [i \in 1..Len(Get(result, "tensors").a) |->
     Get(Get(result, "tensors").a[i], "name")]

\* the names of the first n tensor entries of a header
FirstNames(header, n) ==
  [i \in 1..n |-> JStr(EntriesOfHeader(header)[i].k)]

Least(a, b) == IF a < b THEN a ELSE b

\* C23: with include_tensors not false and max_tensors = M given, the analysis
\* holds exactly the first min(M, tensor_count) tensors in header order, and
\* its warnings are the one entry "Tensor list truncated to M items" when
\* M < tensor_count and empty otherwise; for every M, M = 0 included.
C23_TruncatedToMax ==
  (/\ call = "analyzeSafetensors"
   /\ Prop(arg.options, "include_tensors") # JBool(FALSE)
   /\ HasKey(arg.options, "max_tensors")) =>
    /\ ret.ok
    /\ ShownNames(ret.value)
         = FirstNames(arg.header, Least(Get(arg.options, "max_tensors").n,
                                        Len(EntriesOfHeader(arg.header))))
    /\ Get(ret.value, "warnings")
         = IF Get(arg.options, "max_tensors").n < Len(EntriesOfHeader(arg.header))
           THEN JArr(<<JStr("Tensor list truncated to "
                            \o NatToStr(Get(arg.options, "max_tensors").n)
                            \o " items")>>)
           ELSE JArr(<<>>)

\* the parameters of the first n tensor entries of the generated headers
TotalOfFirst == <<0, 6, 7, 11, 11, 11>>

\* an analysis without its tensor list and its warnings
Without2(result) ==
  SelectSeq(result.o, LAMBDA e : e.k \notin {"tensors", "warnings"})

\* C24: the file_stats of an analysis are taken over all tensor entries of
\* the header and are the same under every choice of include_tensors and
\* max_tensors (and of the other options) on the same header; include_tensors
\* and max_tensors change nothing but the tensor list and the warnings.
C24_StatsOverAllTensors ==
  /\ (call \in {"analyzeSafetensors", "analyzeAgain"}) =>
       /\ ret.ok
       /\ Get(Get(ret.value, "file_stats"), "tensor_count")
            = JNum(Len(EntriesOfHeader(arg.header)))
       /\ Get(Get(ret.value, "file_stats"), "total_parameters")
            = JNum(TotalOfFirst[Len(EntriesOfHeader(arg.header)) + 1])
  /\ call = "analyzeAgain" =>
       /\ Get(ret.value, "file_stats") = Get(arg.first.ret.value, "file_stats")
       /\ (arg.options \in TensorOptions /\ arg.first.options \in TensorOptions) =>
            Without2(ret.value) = Without2(arg.first.ret.value)

\* a header of three tensors analysed with max_tensors = 1 and then without
\* its tensor list: the lists differ, the statistics count three tensors
C24_Witness ==
  /\ call = "analyzeAgain"
  /\ arg.first.options = OptionsOf(UNDEFINED, JNum(1), UNDEFINED, UNDEFINED)
  /\ arg.options = OptionsOf(JBool(FALSE), UNDEFINED, UNDEFINED, UNDEFINED)
  /\ Len(Get(arg.first.ret.value, "tensors").a) = 1
  /\ Get(ret.value, "tensors") = JArr(<<>>)
  /\ Get(Get(ret.value, "file_stats"), "tensor_count") = JNum(3)

\* max_trigger_words of an options record, 5 when it is not given
WordLimit(options) ==
  IF HasKey(options, "max_trigger_words")
  THEN Get(options, "max_trigger_words").n ELSE 5

\* C25: in every analysis lora_info is present if and only if model_type is
\* "lora"; when it is present and extract_trigger_words is false its
\* trigger_words are empty, and otherwise they are at most max_trigger_words
\* (5 when not given) entries.
C25_LoRAInfoIffLoRA ==
  (call \in {"analyzeSafetensors", "analyzeAgain"}) =>
    /\ ret.ok
    /\ Get(ret.value, "lora_info") # UNDEFINED
         <=> Get(ret.value, "model_type") = JStr("lora")
    /\ Get(ret.value, "lora_info") # UNDEFINED =>
         /\ Get(Get(ret.value, "lora_info"), "trigger_words").t = "arr"
         /\ IF Prop(arg.options, "extract_trigger_words") = JBool(FALSE)
            THEN Get(Get(ret.value, "lora_info"), "trigger_words") = JArr(<<>>)
            ELSE Len(Get(Get(ret.value, "lora_info"), "trigger_words").a)
                   <= WordLimit(arg.options)

\* a LoRA whose tag frequency holds six tags, analysed without options, has
\* five trigger words; and an analysis of another type has no lora_info
C25_Witness ==
  /\ call = "analyzeSafetensors"
  /\ arg.options = JObj(<<>>)
  /\ Get(ret.value, "model_type") = JStr("lora")
  /\ Len(Get(Get(ret.value, "lora_info"), "trigger_words").a) = 5

\* the field of lora_info is the training field when that is set, and null
\* when it is not
CopiedFrom(result, infoField, trainingField) ==
  Get(Get(result, "lora_info"), infoField)
    = IF HasKey(Get(result, "training"), trainingField)
      THEN Get(Get(result, "training"), trainingField)
      ELSE JNull

\* C26: for a header classified as lora, rank is training.network_dim, alpha
\* is training.network_alpha and base_model is training.base_model_version
\* whenever the training field is set, for every parsed value, 0 included;
\* each is null only when the training field is unset.
C26_CopiedFromTraining ==
  (/\ call \in {"analyzeSafetensors", "analyzeAgain"}
   /\ ret.ok
   /\ Get(ret.value, "model_type") = JStr("lora")) =>
    /\ CopiedFrom(ret.value, "rank", "network_dim")
    /\ CopiedFrom(ret.value, "alpha", "network_alpha")
    /\ CopiedFrom(ret.value, "base_model", "base_model_version")

\* the descriptor has end >= start and shape dimensions that are
\* non-negative integers
OrderedDescriptor(desc) ==
  /\ Get(desc, "data_offsets").a[2].n >= Get(desc, "data_offsets").a[1].n
  /\ \A i \in 1..Len(Get(desc, "shape").a) :
       IsInt(Get(desc, "shape").a[i]) /\ Get(desc, "shape").a[i].n >= 0

\* C27: every tensor descriptor of a header that parseHeader returned has
\* data_offsets with end >= start and non-negative integer shape dimensions,
\* so every TensorInfo of an analysis has size = end - start >= 0 and
\* parameters >= 0.
C27_OffsetsOrdered ==
  /\ (call = "parseHeader" /\ ret.ok) =>
       \A i \in 1..Len(EntriesOfHeader(ret.value)) :
         OrderedDescriptor(EntriesOfHeader(ret.value)[i].v)
  /\ (call = "analyzeParsed" /\ ret.ok) =>
       \A i \in 1..Len(Get(ret.value, "tensors").a) :
         /\ Get(Get(ret.value, "tensors").a[i], "size").n >= 0
         /\ Get(Get(ret.value, "tensors").a[i], "parameters").n >= 0

-----------------------------------------------------------------------------
(* Claims about the attempts of handleFile, checked under SpecPage *)

\* the files whose header cannot be read, does not parse or is not valid
BadHeaderFiles ==
  {"cut.safetensors", "odd.safetensors", "raw.json", "five.json", "broken.json"}

\* an attempt finishes in this step and leaves no other attempt in flight
LastAttemptFinishes == Len(tasks) = 1 /\ tasks' = <<>>

\* C28: when an attempt of handleFile for a file with an accepted extension
\* finishes and no other attempt is in flight, isProcessing is false and
\* exactly one of analysis and error is set: analysis is null and error holds
\* a message if reading, parsing or validating the header failed, and
\* analysis is the new result and error is null if it succeeded.
C28_AnalysisOrError ==
  [][LastAttemptFinishes =>
       /\ isProcessing' = FALSE
       /\ IF tasks[1].file.name \in BadHeaderFiles
          THEN analysis' = JNull /\ error' # JNull
          ELSE /\ analysis' # JNull
               /\ Get(Get(analysis', "file_stats"), "file_size")
                    = JNum(Len(tasks[1].file.bytes))
               /\ error' = JNull]_vars

\* the size of the page file of the given name
SizeOfFile(name) ==
  Len((CHOOSE file \in PageFiles : file.name = name).bytes)

\* C29: under any interleaving of overlapping handleFile invocations, once
\* all invocations have finished the analysis that is shown is the one of
\* the file whose name fileName holds (the file submitted last), and
\* isProcessing is true for as long as an invocation is in flight.
C29_LastSubmittedShown ==
  /\ tasks # <<>> => isProcessing = TRUE
  /\ (tasks = <<>> /\ analysis # JNull) =>
       /\ \E file \in PageFiles : file.name = fileName
       /\ Get(Get(analysis, "file_stats"), "file_size")
            = JNum(SizeOfFile(fileName))

-----------------------------------------------------------------------------
(* The tensor table of SafetensorsAnalysisDisplay.  MainPage shows the      *)
(* component in a keyed Show on the analysis: another analysis gives a new  *)
(* component, with its signals at their initial values.  The page's         *)
(* handlers above run on files of at most two tensors, whose table has one  *)
(* page and no buttons.                                                     *)

tensorsPerPage == 50

MaxTableTensors == 120   \* tensors of an analysis that the table shows

\* an analysis with n tensors
TableAnalysis(n) ==
  JObj(<<Entry("model_type", JStr("unknown")),
         Entry("tensors",
               JArr([i \in 1..n |->
                      JObj(<<Entry("name", JStr("t" \o NatToStr(i)))>>)]))>>)

TableAnalyses == {TableAnalysis(n) : n \in 0..MaxTableTensors}

\* props.analysis.tensors
tensors == Get(analysis, "tensors").a

\* Math.ceil(props.analysis.tensors.length / tensorsPerPage)
totalPages ==
  IF Len(tensors) % tensorsPerPage = 0
  THEN Len(tensors) \div tensorsPerPage
  ELSE Len(tensors) \div tensorsPerPage + 1

\* a.slice(start, end) for 0 <= start <= end
slice(a, start, end) ==
  SubSeq(a, start + 1, IF end > Len(a) THEN Len(a) ELSE end)

displayedTensors ==
  IF showAllTensors THEN tensors
  ELSE slice(tensors, (currentPage - 1) * tensorsPerPage,
             (currentPage - 1) * tensorsPerPage + tensorsPerPage)

\* <Show when={props.analysis.tensors.length > 0}>
TableShown == Len(tensors) > 0

\* <Show when={!showAllTensors() && totalPages() > 1}>
PagerShown == TableShown /\ ~showAllTensors /\ totalPages > 1

ClickFirst ==
  /\ PagerShown
  /\ currentPage # 1
  /\ currentPage' = 1
  /\ UNCHANGED <<pureVars, isProcessing, analysis, error, fileName, tasks,
                 analyzed, showAllTensors>>

ClickPrevious ==
  /\ PagerShown
  /\ currentPage # 1
  /\ currentPage' = currentPage - 1
  /\ UNCHANGED <<pureVars, isProcessing, analysis, error, fileName, tasks,
                 analyzed, showAllTensors>>

ClickNext ==
  /\ PagerShown
  /\ currentPage # totalPages
  /\ currentPage' = currentPage + 1
  /\ UNCHANGED <<pureVars, isProcessing, analysis, error, fileName, tasks,
                 analyzed, showAllTensors>>

ClickLast ==
  /\ PagerShown
  /\ currentPage # totalPages
  /\ currentPage' = totalPages
  /\ UNCHANGED <<pureVars, isProcessing, analysis, error, fileName, tasks,
                 analyzed, showAllTensors>>

\* the button "Show All" / "Show Pages"
ToggleShowAll ==
  /\ TableShown
  /\ Len(tensors) > tensorsPerPage
  /\ showAllTensors' = ~showAllTensors
  /\ UNCHANGED <<pureVars, isProcessing, analysis, error, fileName, tasks,
                 analyzed, currentPage>>

\* the signals of the component are kept when the analysis changes
ReplaceAnalysis_NotKeyed ==
  /\ \E other \in TableAnalyses \ {analysis} : analysis' = other
  /\ UNCHANGED <<pureVars, isProcessing, error, fileName, tasks, analyzed,
                 tableVars>>

\* setAnalysis(analysisResult) with the analysis of another file: the keyed
\* Show disposes of the component and creates it anew
ReplaceAnalysis ==
  /\ \E other \in TableAnalyses \ {analysis} : analysis' = other
  /\ currentPage' = 1
  /\ showAllTensors' = FALSE
  /\ UNCHANGED <<pureVars, isProcessing, error, fileName, tasks, analyzed>>

InitTable ==
  /\ arg = UNDEFINED
  /\ call = "table"
  /\ ret = UNDEFINED
  /\ isProcessing = FALSE
  /\ analysis \in TableAnalyses
  /\ error = JNull
  /\ fileName = "model.safetensors"
  /\ tasks = <<>>
  /\ analyzed = UNDEFINED
  /\ currentPage = 1
  /\ showAllTensors = FALSE

NextTable ==
  \/ ClickFirst
  \/ ClickPrevious
  \/ ClickNext
  \/ ClickLast
  \/ ToggleShowAll
  \/ ReplaceAnalysis

SpecTable == InitTable /\ [][NextTable]_vars

-----------------------------------------------------------------------------
(* Claims about the tensor table, checked under SpecTable *)

\* the least number of pages of 50 that hold n tensors
PagesFor(n) == CHOOSE p \in 0..n : p * 50 >= n /\ (p - 1) * 50 < n

\* C30: for a non-empty tensor list, after any clicks of First, Previous,
\* Next and Last and any toggles of Show All, and after the analysis shown
\* is replaced by the analysis of another file, 1 <= currentPage <=
\* totalPages, where totalPages = ceil(tensor count / 50), and the page shown
\* in paged mode is a non-empty slice of at most 50 tensors.
C30_PageInRange ==
  Len(Get(analysis, "tensors").a) > 0 =>
    /\ totalPages = PagesFor(Len(Get(analysis, "tensors").a))
    /\ 1 <= currentPage
    /\ currentPage <= PagesFor(Len(Get(analysis, "tensors").a))
    /\ ~showAllTensors =>
         /\ Len(displayedTensors) >= 1
         /\ Len(displayedTensors) <= 50
         /\ \A i \in 1..Len(displayedTensors) :
              displayedTensors[i]
                = Get(analysis, "tensors").a[(currentPage - 1) * 50 + i]

\* the third and last page of 120 tensors is shown: tensors 101 to 120
C30_Witness ==
  /\ Len(Get(analysis, "tensors").a) = 120
  /\ currentPage = 3
  /\ ~showAllTensors
  /\ Len(displayedTensors) = 20
  /\ displayedTensors[1] = JObj(<<Entry("name", JStr("t101"))>>)

=============================================================================
